---------------------------- MODULE Spec2Model ----------------------------
(***************************************************************************)
(* A model of immich-sync: the sync orchestrator (pkg/app), the worker     *)
(* pool of one album sync, the two dedup caches, the rate-limit retry loop *)
(* of the Google Photos HTTP transport, and the album scraper.             *)
(*                                                                         *)
(* The specifications of the module:                                       *)
(*   SpecAlbum  one processAlbum call, all interleavings of the feeder,    *)
(*              the workers, the closer and the aggregating loop           *)
(*              (SpecAlbumFair: the same, weakly fair);                    *)
(*   SpecTwice  two processAlbum calls in a row against one asset store;   *)
(*   SpecTrash  one processAlbum call against a store with trashed assets; *)
(*   SpecUpload one processAlbum call against a store whose upload         *)
(*              endpoint may end with any status and body;                 *)
(*   SpecRun    App.Run: the scheduling loop, the album semaphore and the  *)
(*              rescheduling of due albums;                                *)
(*   SpecLoad   App.Run with the workers of every album sync;              *)
(*   SpecStart  App.Run under a configuration with a daily start time;     *)
(*   SpecRetry  Client.doWithRetry (SpecRetryFair: the same, weakly fair); *)
(*   SpecScrape ScrapeAlbum from the decoded first page on: pagination and *)
(*              deduplication (SpecScrapeFair: the same, weakly fair);     *)
(*   SpecScan   the bracket-balancing scan of ScrapeAlbum;                 *)
(*   SpecTime   extractTimestamp;                                          *)
(*   SpecResolve the destination album of the album syncs of one batch;    *)
(*   SpecAdd    immich Client.AddAssetsToAlbum;                            *)
(*   SpecBatch  parseBatchResponse on the lines of a response body;        *)
(*   SpecMedia  DownloadMedia: the content-type probe and the download.    *)
(* Strings whose characters the code inspects (photo ids, file names, the  *)
(* page text) are sequences of one-character strings; opaque ids are plain *)
(* strings.                                                                *)
(***************************************************************************)
EXTENDS Integers, Sequences, FiniteSets, TLC

VARIABLES
    \* ---- configuration and environment of one album sync
    cfg,            \* config.Config fields read by processAlbum/processItem
    source,         \* what ScrapeAlbum returns for the album URL: Title, Photos
    albumCache,     \* the []immich.Album handed to processAlbum by Run
    store,          \* the asset store: assets, albums, ids of the assets in the trash
    \* ---- processAlbum locals
    apc,            \* position of processAlbum's own goroutine
    albumId, existingFiles, globalAssets, photos, numWorkers,
    \* ---- worker pool
    jobs, jobsClosed, results, resultsClosed, feedIdx, wpc, wjob, wres,
    \* ---- aggregating loop
    processed, added, skipped, failed, newAssetIds,
    tracker,        \* the progress tracker's item and byte counters
    \* ---- history of the current sync (not program state)
    run,            \* 1 or 2: which sync of the album this is
    handled,        \* per item: the processItem calls made for it (worker, result)
    received,       \* per item: how many of its results the aggregating loop took
    downloads,      \* per item: download requests made
    uploads,        \* per item: upload requests made
    hist,           \* album-level events of this sync, summary of the previous one
    \* ---- App.Run
    runCfg,         \* AlbumWorkers, SyncStartTime and GooglePhotos of the config
    rpc,            \* position of Run's goroutine
    now,            \* the clock, in minutes
    nextRun,        \* map[string]time.Time, by album URL
    due,            \* the albums collected as due, in configuration order
    loopIdx,        \* index of the spawn loop and of the reschedule loop
    listOk,         \* whether GetAlbums answered for this batch
    sem,            \* tokens in the album semaphore channel
    gpc,            \* per due album: position of its goroutine
    cycle,          \* per due album: what its processAlbum call did
    lastResched,    \* per configured album: its last rescheduling (history)
    load,           \* per due album: its workers, and how many are in processItem
    \* ---- Client.doWithRetry
    req,            \* the makeReq closure: Method, and whether NewRequest succeeds
    server,         \* what the server answers to successive dispatches
    dpc,            \* position of the call
    attempt,        \* the loop variable i
    resp,           \* the resp variable: the last response received, or NilResp
    ret,            \* what the call returned: resp, err ("pending" before it returns)
    dispatched,     \* requests handed to client.Do so far
    slept,          \* the sleeps made, in milliseconds (history)
    warned,         \* "Rate limited (429), retrying" lines logged (history)
    \* ---- googlephotos.ScrapeAlbum
    site,           \* what the source serves: the first page's data, the RPC pages
    spc,            \* position of the ScrapeAlbum call
    scraped,        \* the photos variable of ScrapeAlbum
    continueToken,  \* the continuation token held by ScrapeAlbum
    page,           \* the loop variable of the pagination loop
    fetches,        \* fetchNextPage calls made (history)
    warnings,       \* "Warning: ..." lines printed (history)
    stopped,        \* why pagination ended (history)
    dedupIdx,       \* deduplicatePhotos: the position of its loop
    seen,           \* deduplicatePhotos: the ids kept so far
    result,         \* deduplicatePhotos: the photos kept so far
    album,          \* what ScrapeAlbum returned
    \* ---- the bracket-balancing scan of ScrapeAlbum
    text,           \* the page text from the end of the data anchor on
    json,           \* what the scan found: jsonStart, jsonEnd, or the error
    \* ---- extractTimestamp
    itemArr,        \* the item array
    deadline,       \* now.Add(24 * time.Hour)
    takenAt,        \* the time returned
    \* ---- immich Client.AddAssetsToAlbum
    assetIds,       \* the assetIds argument
    failAt,         \* the request of the call that the store fails, 0 for none
    addPc,          \* position of the call
    addI,           \* the loop variable i
    sentChunks,     \* the chunks the store accepted, in order (history)
    addErr,         \* what the call returned ("pending" before it returns)
    \* ---- parseBatchResponse
    respBody,       \* the lines of the response body
    batchRet,       \* what parseBatchResponse returned
    \* ---- googlephotos.DownloadMedia
    origin,         \* what the media server answers to the probe and the download
    mpc,            \* position of the DownloadMedia call
    probeResp,      \* what Head returned
    isVideo,        \* the isVideo variable
    mediaRet        \* what DownloadMedia returned

cfgVars   == <<cfg, source, albumCache>>
albumVars == <<apc, albumId, existingFiles, globalAssets, photos, numWorkers>>
poolVars  == <<jobs, jobsClosed, results, resultsClosed, feedIdx, wpc, wjob, wres>>
aggVars   == <<processed, added, skipped, failed, newAssetIds, tracker>>
histVars  == <<run, handled, received, downloads, uploads, hist>>
syncVars  == <<cfgVars, store, albumVars, poolVars, aggVars, histVars>>

runVars   == <<runCfg, rpc, now, nextRun, due, loopIdx, listOk, sem, gpc, cycle,
               lastResched, load>>

retryVars == <<req, server, dpc, attempt, resp, ret, dispatched, slept, warned>>

dedupVars  == <<dedupIdx, seen, result>>
scrapeVars == <<site, spc, scraped, continueToken, page, fetches, warnings, stopped,
                dedupVars, album>>
scanVars  == <<text, json>>
timeVars  == <<itemArr, deadline, takenAt>>
parseVars == <<scrapeVars, scanVars, timeVars>>

addVars   == <<assetIds, failAt, addPc, addI, sentChunks, addErr>>
batchVars == <<respBody, batchRet>>
mediaVars == <<origin, mpc, probeResp, isVideo, mediaRet>>
callVars  == <<addVars, batchVars, mediaVars>>

vars == <<syncVars, runVars, retryVars, parseVars, callVars>>

\* what the actions of one subsystem leave alone
outsideAlbum == <<runVars, retryVars, parseVars, callVars>>
outsideRun   == <<syncVars, retryVars, parseVars, callVars>>
outsideRetry == <<syncVars, runVars, parseVars, callVars>>
outsideParse == <<syncVars, runVars, retryVars, callVars>>
outsideCalls == <<syncVars, runVars, parseVars>>

-----------------------------------------------------------------------------
(* Bounds of the model *)

MaxWorkers == 2     \* largest configured cfg.Workers
MaxItems   == 2     \* largest album in the worker-pool cases and in SpecTwice
MaxAlbumItems == 3  \* largest album in the dedup cases
pageSize   == 1     \* assets per page of the device search (1000 in the code)
MaxAlbums  == 2     \* largest number of configured albums
MaxTime    == 3     \* the clock stops here
MaxRateLimited == 6 \* longest run of 429 answers the server gives

-----------------------------------------------------------------------------
(* Strings *)

\* strings.ReplaceAll(s, old, "_") for a one-character old
ReplaceAll(s, old) == [i \in DOMAIN s |-> IF s[i] = old THEN "_" ELSE s[i]]

\* strings.LastIndex(name, "."), 1-based; 0 when there is no dot
LastDot(name) ==
    LET dots == {i \in DOMAIN name : name[i] = "."}
    IN  IF dots = {} THEN 0 ELSE CHOOSE i \in dots : \A j \in dots : j <= i

StripExtKeepsName(name) == name

\* name[:dot] when a dot exists, the whole name otherwise
StripExt(name) ==
    IF LastDot(name) = 0 THEN name ELSE SubSeq(name, 1, LastDot(name) - 1)

\* baseName := "gp_" + safeId, safeId = p.ID with "/" and ":" replaced by "_"
BaseName(id) == <<"g", "p", "_">> \o ReplaceAll(ReplaceAll(id, "/"), ":")

\* extensionFromContentType on the content types the model serves
ExtensionFromContentType(ct) ==
    CASE ct = "image/jpeg" -> <<".", "j", "p", "g">>
      [] ct = "image/png"  -> <<".", "p", "n", "g">>
      [] ct = "video/mp4"  -> <<".", "m", "p", "4">>
      [] ct = "video/x"    -> <<".", "m", "p", "4">>
      [] OTHER             -> <<".", "j", "p", "g">>

\* strings.HasPrefix(strings.ToLower(probeCt), "video/")
IsVideoType(ct) == ct \in {"video/mp4", "video/x"}

-----------------------------------------------------------------------------
(* The source album and the asset store *)

DeviceId == "immich-sync-go"

\* googlephotos.Photo as ScrapeAlbum returns it, with what the media server
\* answers for its URL: the probed content type and the byte count.
Photo(id, zero, ct, size) ==
    [ID |-> id, TakenAtZero |-> zero, ct |-> ct, size |-> size]

Catalogue ==
    << Photo(<<"a", "/", "b">>, FALSE, "image/jpeg", 2),
       Photo(<<"c", ".", "d">>, TRUE,  "image/png",  1),
       Photo(<<"e", ":", "f">>, TRUE,  "video/mp4",  3),
       Photo(<<"g">>,           FALSE, "video/x",    1) >>

\* The id the store gives the asset it creates for the bytes of photo `id`.
FreshAssetId(id) ==
    CASE id = Catalogue[1].ID -> "asset-1"
      [] id = Catalogue[2].ID -> "asset-2"
      [] id = Catalogue[3].ID -> "asset-3"
      [] OTHER                -> "asset-4"

Asset(id, name, device, content) ==
    [Id |-> id, OriginalFileName |-> name, DeviceId |-> device, Content |-> content]

\* map[baseName]assetId built by the loops over albumDetails.Assets and over
\* the search result: later entries overwrite earlier ones, and the order is
\* the store's, so any asset with that stem may be the one the map keeps.
IndexChoices(assets) ==
    LET stems == {StripExt(a.OriginalFileName) : a \in assets}
        ids   == {a.Id : a \in assets}
    IN  {f \in [stems -> ids] :
            \A k \in stems : \E a \in assets :
                StripExt(a.OriginalFileName) = k /\ a.Id = f[k]}

EmptyMap == [k \in {} |-> ""]

\* The assets a listing of the asset store returns. The requests of GetAlbum
\* and SearchAssetsByDevice say nothing about trashed assets, so whether the
\* answer holds them is the store's choice.
Listed(st, withTrash) ==
    IF withTrash THEN st.assets ELSE {a \in st.assets : a.Id \notin st.trash}

-----------------------------------------------------------------------------
(* processItem *)

Result(id, uploaded, err, down, up) ==
    [ID |-> id, WasUploaded |-> uploaded, Error |-> err,
     BytesDownloaded |-> down, BytesUploaded |-> up]

DownloadOutcomes == {"ok", "err"}

\* What the asset store answers to POST /assets: the final status of the
\* exchange and what the body holds under "id": a string that names an asset
\* ("id"), the empty string ("empty"), or no string at all ("noid").
Answer(status, body) == [status |-> status, body |-> body]

UploadAnswers == {Answer(s, b) : s \in {201, 308, 500}, b \in {"id", "empty", "noid"}}

\* the answers of a store that creates the asset, returns an empty id, or
\* fails with a server error
PlainAnswers == {Answer(201, "id"), Answer(201, "empty"), Answer(500, "noid")}

NoAnswer == Answer(0, "noid")

\* requestWithReader: the body is returned with an error when the status is
\* 400 or above, and without one otherwise
RequestWithReader(a) == IF a.status >= 400 THEN "err" ELSE "nil"

\* the status of the answer is not looked at
UploadAssetStreamAnyStatus(a) ==
    IF a.body = "noid" THEN "err"
    ELSE IF a.body = "empty" THEN "empty"
    ELSE "ok"

\* UploadAssetStream: "err" when the request failed or the body holds no
\* string under "id"; otherwise that string is returned with a nil error,
\* the empty one ("empty") like any other ("ok")
UploadAssetStream(a) ==
    IF RequestWithReader(a) = "err" THEN "err"
    ELSE IF a.body = "noid" THEN "err"
    ELSE IF a.body = "empty" THEN "empty"
    ELSE "ok"

\* The asset store's answer to POST /assets for a request that succeeds:
\* bytes it already holds are answered with the existing id and duplicate=true.
StoreUpload(st, filename, content) ==
    IF \E a \in st.assets : a.Content = content
    THEN [id    |-> (CHOOSE a \in st.assets : a.Content = content).Id,
          dup   |-> TRUE,
          store |-> st]
    ELSE [id    |-> FreshAssetId(content),
          dup   |-> FALSE,
          store |-> [st EXCEPT !.assets =
                        @ \cup {Asset(FreshAssetId(content), filename, DeviceId, content)}]]

\* the skipped video's bytes are not reported
SkipVideoUncounted(p, st) ==
    [res |-> Result("", FALSE, "nil", 0, 0), store |-> st, dl |-> 1, ul |-> 0]

\* lines 334-338: the downloaded video is closed and dropped; its size is
\* returned as bytesDownloaded
SkipVideo(p, st) ==
    [res |-> Result("", FALSE, "nil", p.size, 0), store |-> st, dl |-> 1, ul |-> 0]

\* the bytes sent with a failed upload are reported as uploaded
UploadFailedCountsBytes(p, st, err) ==
    [res |-> Result("", FALSE, err, p.size, p.size), store |-> st, dl |-> 1, ul |-> 1]

\* lines 357-362: an error of UploadAssetStream, or an empty id, is the item's
\* error; the bytes downloaded are reported, none are reported as uploaded
UploadFailed(p, st, err) ==
    [res |-> Result("", FALSE, err, p.size, 0), store |-> st, dl |-> 1, ul |-> 1]

\* the global cache is consulted before the album cache
CacheStageGlobalFirst(p, existing, global, c) ==
    IF BaseName(p.ID) \in DOMAIN global THEN "global"
    ELSE IF BaseName(p.ID) \in DOMAIN existing THEN "album"
    ELSE IF c.StrictMetadata /\ p.TakenAtZero THEN "strict"
    ELSE "download"

CacheStageNoGlobal(p, existing, global, c) ==
    IF BaseName(p.ID) \in DOMAIN existing THEN "album"
    ELSE IF c.StrictMetadata /\ p.TakenAtZero THEN "strict"
    ELSE "download"

CacheStageNoStrict(p, existing, global, c) ==
    IF BaseName(p.ID) \in DOMAIN existing THEN "album"
    ELSE IF BaseName(p.ID) \in DOMAIN global THEN "global"
    ELSE "download"

\* The first cache that holds the item's key, as processItem consults them.
CacheStage(p, existing, global, c) ==
    IF BaseName(p.ID) \in DOMAIN existing THEN "album"
    ELSE IF BaseName(p.ID) \in DOMAIN global THEN "global"
    ELSE IF c.StrictMetadata /\ p.TakenAtZero THEN "strict"
    ELSE "download"

\* processItem(p, ...) under the download outcome dl and the upload outcome
\* up: the result returned, the store afterwards, and whether a download and
\* an upload request were made.
ProcessItem(p, existing, global, c, st, dl, up) ==
    LET stage    == CacheStage(p, existing, global, c)
        filename == BaseName(p.ID) \o ExtensionFromContentType(p.ct)
        put      == StoreUpload(st, filename, p.ID)
        none(r)  == [res |-> r, store |-> st, dl |-> 0, ul |-> 0]
    IN  CASE stage = "album"  -> none(Result("", FALSE, "nil", 0, 0))
          [] stage = "global" ->
                none(Result(global[BaseName(p.ID)], FALSE, "nil", 0, 0))
          [] stage = "strict" -> none(Result("", FALSE, "nil", 0, 0))
          [] OTHER ->
                IF dl = "err"
                THEN [res |-> Result("", FALSE, "download", 0, 0),
                      store |-> st, dl |-> 1, ul |-> 0]
                ELSE IF IsVideoType(p.ct) /\ c.SkipVideos
                THEN SkipVideo(p, st)
                ELSE IF up = "err"
                THEN UploadFailed(p, st, "upload")
                ELSE IF up = "empty"
                THEN UploadFailed(p, st, "emptyid")
                ELSE IF put.dup
                THEN [res |-> Result(put.id, FALSE, "nil", p.size, p.size),
                      store |-> put.store, dl |-> 1, ul |-> 1]
                ELSE [res |-> Result(put.id, TRUE, "nil", p.size, p.size),
                      store |-> put.store, dl |-> 1, ul |-> 1]

-----------------------------------------------------------------------------
(* processAlbum: scrape, destination album, dedup caches *)

Items == 1..Len(photos)

NoPrev == [complete |-> FALSE, failed |-> 0, added |-> 0, assets |-> {}]

NoHistory ==
    [scrapeErr |-> FALSE, createErr |-> FALSE, searchOk |-> FALSE, searchErrPage |-> 0,
     addCalls |-> 0, addOk |-> FALSE, batch |-> <<>>, prev |-> NoPrev]

\* albumTitle: the configured name overrides the scraped title
AlbumTitle == IF cfg.AlbumName # "" THEN cfg.AlbumName ELSE source.Title

\* the last album of the list with that name
CachedAlbumIdLast(title) ==
    LET hits == {i \in DOMAIN albumCache : albumCache[i].AlbumName = title}
    IN  IF hits = {} THEN ""
        ELSE albumCache[CHOOSE i \in hits : \A j \in hits : i >= j].Id

\* the first album of the pre-fetched list with that name, "" when none
CachedAlbumId(title) ==
    LET hits == {i \in DOMAIN albumCache : albumCache[i].AlbumName = title}
    IN  IF hits = {} THEN ""
        ELSE albumCache[CHOOSE i \in hits : \A j \in hits : i <= j].Id

\* the id the store gives a newly created album
FreshAlbumId == IF "new-1" \in DOMAIN store.albums THEN "new-2" ELSE "new-1"

\* the store after POST /albums created album `id` named `name`
WithAlbum(st, id, name) ==
    [st EXCEPT !.albums =
        [a \in DOMAIN st.albums \cup {id} |->
            IF a \in DOMAIN st.albums THEN st.albums[a]
            ELSE [AlbumName |-> name, Assets |-> {}]]]

\* googlephotos.ScrapeAlbum fails: processAlbum logs and returns
ScrapeFails ==
    /\ apc = "scrape"
    /\ apc' = "returned"
    /\ hist' = [hist EXCEPT !.scrapeErr = TRUE]
    /\ UNCHANGED <<outsideAlbum, cfgVars, store, albumId, existingFiles, globalAssets, photos,
                   numWorkers, poolVars, aggVars, run, handled, received, downloads, uploads>>

\* googlephotos.ScrapeAlbum succeeds; an album without photos ends the sync
ScrapeOk ==
    /\ apc = "scrape"
    /\ photos' = source.Photos
    /\ apc' = IF Len(source.Photos) = 0 THEN "returned" ELSE "resolve"
    /\ handled'   = [i \in 1..Len(source.Photos) |-> <<>>]
    /\ received'  = [i \in 1..Len(source.Photos) |-> 0]
    /\ downloads' = [i \in 1..Len(source.Photos) |-> 0]
    /\ uploads'   = [i \in 1..Len(source.Photos) |-> 0]
    /\ UNCHANGED <<outsideAlbum, cfgVars, store, albumId, existingFiles, globalAssets,
                   numWorkers, poolVars, aggVars, run, hist>>

\* "Resolve Immich album ID" with a configured id or a name found in the list
ResolveKnown ==
    /\ apc = "resolve"
    /\ cfg.ImmichAlbumID # "" \/ CachedAlbumId(AlbumTitle) # ""
    /\ albumId' = IF cfg.ImmichAlbumID # "" THEN cfg.ImmichAlbumID
                  ELSE CachedAlbumId(AlbumTitle)
    /\ apc' = "getAlbum"
    /\ UNCHANGED <<outsideAlbum, cfgVars, store, existingFiles, globalAssets, photos,
                   numWorkers, poolVars, aggVars, histVars>>

\* a.Client.CreateAlbum(albumTitle) succeeds
CreateAlbumOk ==
    /\ apc = "resolve"
    /\ cfg.ImmichAlbumID = "" /\ CachedAlbumId(AlbumTitle) = ""
    /\ albumId' = FreshAlbumId
    /\ store' = WithAlbum(store, FreshAlbumId, AlbumTitle)
    /\ apc' = "getAlbum"
    /\ UNCHANGED <<outsideAlbum, cfgVars, existingFiles, globalAssets, photos,
                   numWorkers, poolVars, aggVars, histVars>>

\* a.Client.CreateAlbum(albumTitle) fails: logged, albumId stays ""
CreateAlbumFails ==
    /\ apc = "resolve"
    /\ cfg.ImmichAlbumID = "" /\ CachedAlbumId(AlbumTitle) = ""
    /\ albumId' = ""
    /\ hist' = [hist EXCEPT !.createErr = TRUE]
    /\ apc' = "getAlbum"
    /\ UNCHANGED <<outsideAlbum, cfgVars, store, existingFiles, globalAssets, photos,
                   numWorkers, poolVars, aggVars, run, handled, received, downloads, uploads>>

\* "Pre-fetch existing album assets": GetAlbum answers and the map is built
GetAlbumOk ==
    /\ apc = "getAlbum"
    /\ albumId # "" /\ albumId \in DOMAIN store.albums
    /\ \E withTrash \in BOOLEAN :
          \E f \in IndexChoices({a \in Listed(store, withTrash) :
                                    a.Id \in store.albums[albumId].Assets}) :
              existingFiles' = f
    /\ apc' = "search"
    /\ UNCHANGED <<outsideAlbum, cfgVars, store, albumId, globalAssets, photos,
                   numWorkers, poolVars, aggVars, histVars>>

\* no album id, or GetAlbum fails: the album cache stays empty
GetAlbumSkipped ==
    /\ apc = "getAlbum"
    /\ existingFiles' = EmptyMap
    /\ apc' = "search"
    /\ UNCHANGED <<outsideAlbum, cfgVars, store, albumId, globalAssets, photos,
                   numWorkers, poolVars, aggVars, histVars>>

\* What SearchAssetsByDevice returns when the request for page `pg` fails
\* after the pages before it were answered in full with the assets `got`: the
\* entries of those pages, and the error.
SearchErrors(listed, pg) ==
    {[result |-> f, err |-> TRUE] :
        f \in UNION {IndexChoices(got) :
                        got \in {g \in SUBSET listed :
                                    Cardinality(g) = (pg - 1) * pageSize}}}

\* the pages SearchAssetsByDevice asks for when the store lists n assets for
\* the device: page 1, and the next one while the last was full and more
\* assets remain
PagesAsked(n) == 1..(IF n = 0 THEN 1 ELSE (n + pageSize - 1) \div pageSize)

\* the entries fetched before the failure are kept
GlobalAssetsKeepPartial(sr) == sr.result

\* lines 195-201: the map the search returned, or a new empty map when it
\* returned an error
GlobalAssetsAfter(sr) == IF sr.err THEN EmptyMap ELSE sr.result

\* SearchAssetsByDevice("immich-sync-go") answers every page
SearchOk ==
    /\ apc = "search"
    /\ \E withTrash \in BOOLEAN :
          \E f \in IndexChoices({a \in Listed(store, withTrash) :
                                    a.DeviceId = DeviceId}) :
              globalAssets' = GlobalAssetsAfter([result |-> f, err |-> FALSE])
    /\ hist' = [hist EXCEPT !.searchOk = TRUE]
    /\ apc' = "start"
    /\ UNCHANGED <<outsideAlbum, cfgVars, store, albumId, existingFiles, photos,
                   numWorkers, poolVars, aggVars, run, handled, received,
                   downloads, uploads>>

\* SearchAssetsByDevice fails: globalAssets = make(map[string]string)
SearchFails ==
    /\ apc = "search"
    /\ \E withTrash \in BOOLEAN :
          LET listed == {a \in Listed(store, withTrash) : a.DeviceId = DeviceId}
          IN  \E pg \in PagesAsked(Cardinality(listed)) :
                \E sr \in SearchErrors(listed, pg) :
                    /\ globalAssets' = GlobalAssetsAfter(sr)
                    /\ hist' = [hist EXCEPT !.searchErrPage = pg]
    /\ apc' = "start"
    /\ UNCHANGED <<outsideAlbum, cfgVars, store, albumId, existingFiles, photos,
                   numWorkers, poolVars, aggVars, run, handled, received,
                   downloads, uploads>>

-----------------------------------------------------------------------------
(* processAlbum: the worker pool and the aggregating loop *)

\* progress.New: every counter at zero
NewTracker ==
    [processedItems |-> 0, addedItems |-> 0, skippedItems |-> 0, failedItems |-> 0,
     bytesDownloaded |-> 0, bytesUploaded |-> 0]

\* atomic.Int64.Add: the load, the sum and the store are one operation
Add(v, n) == v + n

\* Tracker.RecordItem, called by the aggregating loop for every result
RecordItem(downloaded, uploaded, wasAdded, wasSkipped, wasFailed) ==
    tracker' = [processedItems  |-> Add(tracker.processedItems, 1),
                bytesDownloaded |-> Add(tracker.bytesDownloaded, downloaded),
                bytesUploaded   |-> Add(tracker.bytesUploaded, uploaded),
                addedItems      |-> Add(tracker.addedItems, IF wasAdded THEN 1 ELSE 0),
                skippedItems    |-> Add(tracker.skippedItems, IF wasSkipped THEN 1 ELSE 0),
                failedItems     |-> Add(tracker.failedItems, IF wasFailed THEN 1 ELSE 0)]

Min(a, b) == IF a < b THEN a ELSE b

\* the configured count is not cut down to the number of items
NumWorkersUnclamped(configured, total) == IF configured < 1 THEN 1 ELSE configured

\* one worker per item, whatever is configured
NumWorkersPerItem(configured, total) == total

\* numWorkers: cfg.Workers, at least 1, at most the number of items
NumWorkers(configured, total) ==
    Min(IF configured < 1 THEN 1 ELSE configured, total)

\* capacity of the jobs and of the results channel
ChanCap == numWorkers * 2

Workers == DOMAIN wpc

\* lines 203-252: counters zeroed, channels made, and the workers, the feeder
\* and the closer started
StartPool ==
    /\ apc = "start"
    /\ numWorkers' = NumWorkers(cfg.Workers, Len(photos))
    /\ jobs' = <<>> /\ results' = <<>>
    /\ jobsClosed' = FALSE /\ resultsClosed' = FALSE
    /\ feedIdx' = 1
    /\ wpc'  = [w \in 1..NumWorkers(cfg.Workers, Len(photos)) |-> "recv"]
    /\ wjob' = [w \in 1..NumWorkers(cfg.Workers, Len(photos)) |-> 0]
    /\ wres' = [w \in 1..NumWorkers(cfg.Workers, Len(photos)) |-> <<>>]
    /\ processed' = 0 /\ added' = 0 /\ skipped' = 0 /\ failed' = 0
    /\ newAssetIds' = <<>> /\ tracker' = NewTracker
    /\ apc' = "agg"
    /\ UNCHANGED <<outsideAlbum, cfgVars, store, albumId, existingFiles, globalAssets, photos,
                   histVars>>

\* feeder: jobs <- p
FeederSend ==
    /\ apc = "agg" /\ ~jobsClosed
    /\ feedIdx <= Len(photos)
    /\ Len(jobs) < ChanCap
    /\ jobs' = Append(jobs, feedIdx)
    /\ feedIdx' = feedIdx + 1
    /\ UNCHANGED <<outsideAlbum, cfgVars, store, albumVars, jobsClosed, results, resultsClosed,
                   wpc, wjob, wres, aggVars, histVars>>

\* the feeder returns after the last photo and leaves the job queue open
FeederNoClose ==
    /\ apc = "agg" /\ ~jobsClosed
    /\ feedIdx > Len(photos)
    /\ UNCHANGED vars

\* feeder: close(jobs) after the last photo
FeederClose ==
    /\ apc = "agg" /\ ~jobsClosed
    /\ feedIdx > Len(photos)
    /\ jobsClosed' = TRUE
    /\ UNCHANGED <<outsideAlbum, cfgVars, store, albumVars, jobs, results, resultsClosed,
                   feedIdx, wpc, wjob, wres, aggVars, histVars>>

\* worker w: p := <-jobs
WorkerRecv(w) ==
    /\ apc = "agg" /\ wpc[w] = "recv"
    /\ jobs # <<>>
    /\ wjob' = [wjob EXCEPT ![w] = Head(jobs)]
    /\ jobs' = Tail(jobs)
    /\ wpc' = [wpc EXCEPT ![w] = "process"]
    /\ UNCHANGED <<outsideAlbum, cfgVars, store, albumVars, jobsClosed, results, resultsClosed,
                   feedIdx, wres, aggVars, histVars>>

\* worker w: range over a closed, drained jobs channel ends; wg.Done()
WorkerExit(w) ==
    /\ apc = "agg" /\ wpc[w] = "recv"
    /\ jobs = <<>> /\ jobsClosed
    /\ wpc' = [wpc EXCEPT ![w] = "done"]
    /\ UNCHANGED <<outsideAlbum, cfgVars, store, albumVars, jobs, jobsClosed, results,
                   resultsClosed, feedIdx, wjob, wres, aggVars, histVars>>

\* worker w: a.processItem(p, ...)
WorkerProcess(w) ==
    /\ apc = "agg" /\ wpc[w] = "process"
    /\ \E dl \in DownloadOutcomes, ans \in store.answers :
        LET i == wjob[w]
            r == ProcessItem(photos[i], existingFiles, globalAssets, cfg, store, dl,
                             UploadAssetStream(ans))
        IN  /\ wres' = [wres EXCEPT ![w] = [item |-> i, res |-> r.res]]
            /\ store' = r.store
            /\ handled'   = [handled EXCEPT ![i] =
                                Append(@, [by |-> w, res |-> r.res,
                                           up |-> IF r.ul = 1 THEN ans ELSE NoAnswer])]
            /\ downloads' = [downloads EXCEPT ![i] = @ + r.dl]
            /\ uploads'   = [uploads EXCEPT ![i] = @ + r.ul]
    /\ wpc' = [wpc EXCEPT ![w] = "send"]
    /\ UNCHANGED <<outsideAlbum, cfgVars, albumVars, jobs, jobsClosed, results, resultsClosed,
                   feedIdx, wjob, aggVars, run, received, hist>>

\* the worker counts its item itself before it sends the result
WorkerSendCounts(w) ==
    /\ apc = "agg" /\ wpc[w] = "send"
    /\ Len(results) < ChanCap
    /\ results' = Append(results, wres[w])
    /\ wpc' = [wpc EXCEPT ![w] = "recv"]
    /\ processed' = processed + 1
    /\ UNCHANGED <<outsideAlbum, cfgVars, store, albumVars, jobs, jobsClosed, resultsClosed,
                   feedIdx, wjob, wres, added, skipped, failed, newAssetIds, tracker,
                   histVars>>

\* worker w: results <- processResult{...}
WorkerSend(w) ==
    /\ apc = "agg" /\ wpc[w] = "send"
    /\ Len(results) < ChanCap
    /\ results' = Append(results, wres[w])
    /\ wpc' = [wpc EXCEPT ![w] = "recv"]
    /\ UNCHANGED <<outsideAlbum, cfgVars, store, albumVars, jobs, jobsClosed, resultsClosed,
                   feedIdx, wjob, wres, aggVars, histVars>>

CloseResultsEarly ==
    /\ apc = "agg" /\ ~resultsClosed
    /\ \E w \in Workers : wpc[w] = "done"
    /\ resultsClosed' = TRUE
    /\ UNCHANGED <<outsideAlbum, cfgVars, store, albumVars, jobs, jobsClosed, results,
                   feedIdx, wpc, wjob, wres, aggVars, histVars>>

\* closer: wg.Wait(); close(results)
CloseResults ==
    /\ apc = "agg" /\ ~resultsClosed
    /\ \A w \in Workers : wpc[w] = "done"
    /\ resultsClosed' = TRUE
    /\ UNCHANGED <<outsideAlbum, cfgVars, store, albumVars, jobs, jobsClosed, results,
                   feedIdx, wpc, wjob, wres, aggVars, histVars>>

\* the tests of lines 266-272 are made for a failed result as well
AggregateNoElse(res) ==
    /\ processed' = processed + 1
    /\ failed' = IF res.Error # "nil" THEN failed + 1 ELSE failed
    /\ added' = IF res.WasUploaded THEN added + 1 ELSE added
    /\ skipped' = IF ~res.WasUploaded /\ res.ID = "" THEN skipped + 1 ELSE skipped
    /\ newAssetIds' = IF res.ID # "" THEN Append(newAssetIds, res.ID) ELSE newAssetIds
    /\ RecordItem(res.BytesDownloaded, res.BytesUploaded,
                  res.WasUploaded, ~res.WasUploaded /\ res.ID = "", res.Error # "nil")

AggregateErrorAsSkip(res) ==
    /\ processed' = processed + 1
    /\ failed' = failed
    /\ added' = IF res.WasUploaded THEN added + 1 ELSE added
    /\ skipped' = IF ~res.WasUploaded /\ res.ID = "" THEN skipped + 1 ELSE skipped
    /\ newAssetIds' = IF res.ID # "" THEN Append(newAssetIds, res.ID) ELSE newAssetIds
    /\ RecordItem(res.BytesDownloaded, res.BytesUploaded,
                  res.WasUploaded, ~res.WasUploaded /\ res.ID = "", FALSE)

\* one iteration of "for res := range results"
Aggregate(res) ==
    /\ processed' = processed + 1
    /\ failed' = IF res.Error # "nil" THEN failed + 1 ELSE failed
    /\ added' = IF res.Error = "nil" /\ res.WasUploaded THEN added + 1 ELSE added
    /\ skipped' = IF res.Error = "nil" /\ ~res.WasUploaded /\ res.ID = ""
                  THEN skipped + 1 ELSE skipped
    /\ newAssetIds' = IF res.Error = "nil" /\ res.ID # ""
                      THEN Append(newAssetIds, res.ID) ELSE newAssetIds
    /\ RecordItem(res.BytesDownloaded, res.BytesUploaded,
                  res.Error = "nil" /\ res.WasUploaded,
                  res.Error = "nil" /\ ~res.WasUploaded /\ res.ID = "",
                  res.Error # "nil")

AggRecv ==
    /\ apc = "agg"
    /\ results # <<>>
    /\ Aggregate(Head(results).res)
    /\ results' = Tail(results)
    /\ received' = [received EXCEPT ![Head(results).item] = @ + 1]
    /\ UNCHANGED <<outsideAlbum, cfgVars, store, albumVars, jobs, jobsClosed, resultsClosed,
                   feedIdx, wpc, wjob, wres, run, handled, downloads, uploads, hist>>

\* the loop over results ends as soon as the channel is empty
AggEndEarly ==
    /\ apc = "agg"
    /\ results = <<>>
    /\ apc' = "add"
    /\ UNCHANGED <<outsideAlbum, cfgVars, store, albumId, existingFiles, globalAssets, photos,
                   numWorkers, poolVars, aggVars, histVars>>

\* the range over results ends: tracker.Stop()
AggEnd ==
    /\ apc = "agg"
    /\ results = <<>> /\ resultsClosed
    /\ apc' = "add"
    /\ UNCHANGED <<outsideAlbum, cfgVars, store, albumId, existingFiles, globalAssets, photos,
                   numWorkers, poolVars, aggVars, histVars>>

SeqToSet(s) == {s[i] : i \in DOMAIN s}

\* a.Client.AddAssetsToAlbum(albumId, newAssetIds) succeeds
AddAssetsOk ==
    /\ apc = "add"
    /\ albumId # "" /\ Len(newAssetIds) > 0
    /\ albumId \in DOMAIN store.albums
    /\ store' = [store EXCEPT !.albums[albumId].Assets = @ \cup SeqToSet(newAssetIds)]
    /\ hist' = [hist EXCEPT !.addCalls = @ + 1, !.addOk = TRUE, !.batch = newAssetIds]
    /\ apc' = "done"
    /\ UNCHANGED <<outsideAlbum, cfgVars, albumId, existingFiles, globalAssets, photos,
                   numWorkers, poolVars, aggVars, run, handled, received,
                   downloads, uploads>>

\* a.Client.AddAssetsToAlbum fails: logged
AddAssetsFails ==
    /\ apc = "add"
    /\ albumId # "" /\ Len(newAssetIds) > 0
    /\ hist' = [hist EXCEPT !.addCalls = @ + 1, !.batch = newAssetIds]
    /\ apc' = "done"
    /\ UNCHANGED <<outsideAlbum, cfgVars, store, albumId, existingFiles, globalAssets, photos,
                   numWorkers, poolVars, aggVars, run, handled, received,
                   downloads, uploads>>

\* no destination album or nothing collected: no membership update
AddAssetsSkipped ==
    /\ apc = "add"
    /\ ~(albumId # "" /\ Len(newAssetIds) > 0)
    /\ apc' = "done"
    /\ UNCHANGED <<outsideAlbum, cfgVars, store, albumId, existingFiles, globalAssets, photos,
                   numWorkers, poolVars, aggVars, histVars>>

ProcessAlbum ==
    \/ ScrapeFails \/ ScrapeOk
    \/ ResolveKnown \/ CreateAlbumOk \/ CreateAlbumFails
    \/ GetAlbumOk \/ GetAlbumSkipped
    \/ SearchOk \/ SearchFails
    \/ StartPool \/ FeederSend \/ FeederClose
    \/ (\E w \in Workers : WorkerRecv(w))
    \/ (\E w \in Workers : WorkerProcess(w))
    \/ (\E w \in Workers : WorkerSend(w))
    \/ (\E w \in Workers : WorkerExit(w))
    \/ CloseResults \/ AggRecv \/ AggEnd
    \/ AddAssetsOk \/ AddAssetsFails \/ AddAssetsSkipped

-----------------------------------------------------------------------------
(* Initial states *)

Title == "Trip"

EmptyStore ==
    [assets |-> {}, albums |-> [a \in {} |-> {}], trash |-> {}, answers |-> PlainAnswers]

\* GET /albums: the list Run fetches once per batch
AlbumList(st) ==
    IF DOMAIN st.albums = {} THEN <<>>
    ELSE LET SetToSeq[S \in SUBSET DOMAIN st.albums] ==
                IF S = {} THEN <<>>
                ELSE LET a == CHOOSE x \in S : TRUE
                     IN  <<[AlbumName |-> st.albums[a].AlbumName, Id |-> a]>>
                            \o SetToSeq[S \ {a}]
         IN  SetToSeq[DOMAIN st.albums]

\* processAlbum has been called and nothing of it has run yet
AtEntry ==
    /\ apc = "scrape"
    /\ albumId = "" /\ existingFiles = EmptyMap /\ globalAssets = EmptyMap
    /\ photos = <<>> /\ numWorkers = 0
    /\ jobs = <<>> /\ results = <<>> /\ jobsClosed = FALSE /\ resultsClosed = FALSE
    /\ feedIdx = 1 /\ wpc = <<>> /\ wjob = <<>> /\ wres = <<>>
    /\ processed = 0 /\ added = 0 /\ skipped = 0 /\ failed = 0
    /\ newAssetIds = <<>> /\ tracker = NewTracker
    /\ handled = <<>> /\ received = <<>> /\ downloads = <<>> /\ uploads = <<>>
    /\ hist = NoHistory

Configs ==
    [Workers : 0..MaxWorkers, StrictMetadata : BOOLEAN, SkipVideos : BOOLEAN,
     ImmichAlbumID : {""}, AlbumName : {""}]

\* Run is not part of the album specifications
\* no scrape, no scan and no timestamp extraction is under way
ScrapeIdle ==
    /\ site = <<>> /\ spc = "none" /\ scraped = <<>> /\ continueToken = ""
    /\ page = 0 /\ fetches = 0 /\ warnings = <<>> /\ stopped = "" /\ album = <<>>
    /\ dedupIdx = 1 /\ seen = {} /\ result = <<>>

ScanIdle == text = <<>> /\ json = <<>>

TimeIdle == itemArr = <<>> /\ deadline = 0 /\ takenAt = 0

ParseIdle == ScrapeIdle /\ ScanIdle /\ TimeIdle

\* no AddAssetsToAlbum, parseBatchResponse or DownloadMedia call is under way
AddIdle ==
    /\ assetIds = <<>> /\ failAt = 0 /\ addPc = "none" /\ addI = 0
    /\ sentChunks = <<>> /\ addErr = ""

BatchIdle == respBody = <<>> /\ batchRet = <<>>

MediaIdle ==
    /\ origin = <<>> /\ mpc = "none" /\ probeResp = <<>> /\ isVideo = FALSE
    /\ mediaRet = <<>>

CallsIdle == AddIdle /\ BatchIdle /\ MediaIdle

RunIdle ==
    /\ runCfg = [AlbumWorkers |-> 0, GooglePhotos |-> <<>>, SyncStartTime |-> ""]
    /\ rpc = "none" /\ now = 0 /\ nextRun = <<>> /\ due = <<>> /\ loopIdx = 0
    /\ listOk = FALSE /\ sem = 0 /\ gpc = <<>> /\ cycle = <<>> /\ lastResched = <<>>
    /\ load = <<>>

\* doWithRetry is not part of the album and scheduling specifications
RetryIdle ==
    /\ req = [Method |-> "GET", urlOk |-> TRUE]
    /\ server = [limited |-> <<>>, final |-> "200"]
    /\ dpc = "none" /\ attempt = 0 /\ resp = [StatusCode |-> 0, RetryAfter |-> ""]
    /\ ret = [resp |-> [StatusCode |-> 0, RetryAfter |-> ""], err |-> "pending"]
    /\ dispatched = 0 /\ slept = <<>> /\ warned = 0

\* processAlbum is not part of the scheduling and retry specifications
PoolIdle ==
    /\ source = [Title |-> Title, Photos |-> <<>>]
    /\ store = EmptyStore /\ albumCache = <<>> /\ run = 0
    /\ apc = "none"
    /\ albumId = "" /\ existingFiles = EmptyMap /\ globalAssets = EmptyMap
    /\ photos = <<>> /\ numWorkers = 0
    /\ jobs = <<>> /\ results = <<>> /\ jobsClosed = FALSE /\ resultsClosed = FALSE
    /\ feedIdx = 1 /\ wpc = <<>> /\ wjob = <<>> /\ wres = <<>>
    /\ processed = 0 /\ added = 0 /\ skipped = 0 /\ failed = 0
    /\ newAssetIds = <<>> /\ tracker = NewTracker
    /\ handled = <<>> /\ received = <<>> /\ downloads = <<>> /\ uploads = <<>>
    /\ hist = NoHistory

\* the options of a configuration that sets only the worker count
WorkersOnly(w) ==
    [Workers |-> w, StrictMetadata |-> FALSE, SkipVideos |-> FALSE,
     ImmichAlbumID |-> "", AlbumName |-> ""]

SyncIdle == cfg = WorkersOnly(0) /\ PoolIdle

\* Worker-pool cases: the first m photos of the catalogue, 0..MaxWorkers
\* configured workers, an asset store that holds nothing yet
InitPool ==
    /\ cfg \in {c \in Configs : ~c.SkipVideos}
    /\ \E m \in 0..MaxItems :
          source = [Title |-> Title, Photos |-> SubSeq(Catalogue, 1, Min(m, Len(Catalogue)))]
    /\ store = EmptyStore
    /\ albumCache = <<>>
    /\ run = 1
    /\ AtEntry
    /\ RunIdle
    /\ RetryIdle
    /\ ParseIdle
    /\ CallsIdle

-----------------------------------------------------------------------------
(* Two syncs of one album against one asset store *)

\* assets the tool or another device uploaded before the first sync:
\* photo 1 by this tool and already in the destination album, photo 2 by this
\* tool under another album, photo 3 by a phone under its own file name
Prior1 == Asset("asset-1", BaseName(Catalogue[1].ID) \o <<".", "j", "p", "g">>,
                DeviceId, Catalogue[1].ID)
Prior2 == Asset("asset-2", BaseName(Catalogue[2].ID) \o <<".", "p", "n", "g">>,
                DeviceId, Catalogue[2].ID)
Prior3 == Asset("phone-3", <<"I", "M", "G", ".", "m", "p", "4">>,
                "phone", Catalogue[3].ID)

StoreWith(assets, inAlbum) ==
    [assets |-> assets,
     albums |-> [a \in {"old-1"} |-> [AlbumName |-> Title, Assets |-> inAlbum]],
     trash  |-> {},
     answers |-> PlainAnswers]

PriorStores ==
    { EmptyStore,
      StoreWith({Prior1, Prior2}, {"asset-1"}),
      StoreWith({Prior1, Prior2, Prior3}, {"asset-1"}) }

\* the sub-sequences of the catalogue with at most n photos
SubAlbums(n) ==
    LET Pick(S) ==
            LET F[k \in 0..Len(Catalogue)] ==
                    IF k = 0 THEN <<>>
                    ELSE IF k \in S THEN Append(F[k - 1], Catalogue[k]) ELSE F[k - 1]
            IN  F[Len(Catalogue)]
    IN  {Pick(S) : S \in {T \in SUBSET (1..Len(Catalogue)) : Cardinality(T) <= n}}

\* Dedup cases: one worker, any album of at most MaxAlbumItems catalogue
\* photos, an asset store that may already hold some of them
InitDedup ==
    /\ cfg \in {c \in Configs : c.Workers = 1}
    /\ \E ph \in SubAlbums(MaxAlbumItems) : source = [Title |-> Title, Photos |-> ph]
    /\ store \in PriorStores
    /\ albumCache = AlbumList(store)
    /\ run = 1
    /\ AtEntry
    /\ RunIdle
    /\ RetryIdle
    /\ ParseIdle
    /\ CallsIdle

InitAlbum == InitPool \/ InitDedup

NextAlbum == ProcessAlbum

\* one processAlbum call
SpecAlbum == InitAlbum /\ [][NextAlbum]_vars

\* one processAlbum call whose goroutines are scheduled whenever one of them
\* can take a step, and whose calls to the source and the store all return
SpecAlbumFair == SpecAlbum /\ WF_vars(NextAlbum)

\* the store after the user moved the assets `ids` to the trash
Trashed(st, ids) == [st EXCEPT !.trash = ids]

\* stores in which assets this tool uploaded in an earlier sync are in the
\* trash: the one of photo 1 (in the destination album), the one of photo 2
\* (in no album), or both
TrashStores ==
    {Trashed(StoreWith({Prior1, Prior2}, {"asset-1"}), ids) :
        ids \in {{"asset-1"}, {"asset-2"}, {"asset-1", "asset-2"}}}

\* A later sync of the album: one worker, an album of at most MaxItems
\* catalogue photos; the album list is the store's, or nil when GetAlbums
\* failed
InitTrash ==
    /\ cfg \in {c \in Configs : c.Workers = 1}
    /\ \E ph \in SubAlbums(MaxItems) : source = [Title |-> Title, Photos |-> ph]
    /\ store \in TrashStores
    /\ albumCache \in {AlbumList(store), <<>>}
    /\ run = 1
    /\ AtEntry
    /\ RunIdle
    /\ RetryIdle
    /\ ParseIdle
    /\ CallsIdle

NextTrash == ProcessAlbum

\* one processAlbum call against a store with assets in the trash
SpecTrash == InitTrash /\ [][NextTrash]_vars

\* the store `st` behind a proxy or in a state in which POST /assets may end
\* with any of the UploadAnswers
Answering(st) == [st EXCEPT !.answers = UploadAnswers]

\* Upload cases: one worker, any album of at most MaxItems catalogue photos,
\* a store whose upload endpoint may give any answer
InitUpload ==
    /\ cfg \in {c \in Configs : c.Workers = 1}
    /\ \E ph \in SubAlbums(MaxItems) : source = [Title |-> Title, Photos |-> ph]
    /\ store \in {Answering(EmptyStore), Answering(StoreWith({Prior1, Prior2}, {"asset-1"}))}
    /\ albumCache = AlbumList(store)
    /\ run = 1
    /\ AtEntry
    /\ RunIdle
    /\ RetryIdle
    /\ ParseIdle
    /\ CallsIdle

NextUpload == ProcessAlbum

\* one processAlbum call against a store whose uploads may end in any way
SpecUpload == InitUpload /\ [][NextUpload]_vars

InitTwice ==
    /\ cfg \in {c \in Configs : c.Workers = 1}
    /\ \E ph \in SubAlbums(MaxItems) : source = [Title |-> Title, Photos |-> ph]
    /\ store \in PriorStores
    /\ albumCache = AlbumList(store)
    /\ run = 1
    /\ AtEntry
    /\ RunIdle
    /\ RetryIdle
    /\ ParseIdle
    /\ CallsIdle

\* Run's next tick finds the album due again: GetAlbums (which may fail and
\* leave the list nil) and a new processAlbum call
SecondSync ==
    /\ run = 1
    /\ apc \in {"done", "returned"}
    /\ run' = 2
    /\ albumCache' \in {AlbumList(store), <<>>}
    /\ hist' = [NoHistory EXCEPT !.prev =
                    [complete |-> apc = "done", failed |-> failed,
                     added |-> added, assets |-> store.assets]]
    /\ apc' = "scrape"
    /\ albumId' = "" /\ existingFiles' = EmptyMap /\ globalAssets' = EmptyMap
    /\ photos' = <<>> /\ numWorkers' = 0
    /\ jobs' = <<>> /\ results' = <<>> /\ jobsClosed' = FALSE /\ resultsClosed' = FALSE
    /\ feedIdx' = 1 /\ wpc' = <<>> /\ wjob' = <<>> /\ wres' = <<>>
    /\ processed' = 0 /\ added' = 0 /\ skipped' = 0 /\ failed' = 0
    /\ newAssetIds' = <<>> /\ tracker' = NewTracker
    /\ handled' = <<>> /\ received' = <<>> /\ downloads' = <<>> /\ uploads' = <<>>
    /\ UNCHANGED <<outsideAlbum, cfg, source, store>>

NextTwice == ProcessAlbum \/ SecondSync

SpecTwice == InitTwice /\ [][NextTwice]_vars

-----------------------------------------------------------------------------
(* The destination album of the syncs of one batch *)

Listing(name, id) == [AlbumName |-> name, Id |-> id]

\* the albums of the store: two named like the scraped title, one whose name
\* differs from it in case only, one named like the configured override and
\* the one a configuration names by id
ResolveStore ==
    [EmptyStore EXCEPT !.albums =
        [a \in {"old-1", "old-2", "old-3", "old-4", "cfg-1"} |->
            [AlbumName |-> CASE a \in {"old-1", "old-2"} -> Title
                             [] a = "old-3" -> "Mine"
                             [] a = "old-4" -> "trip"
                             [] OTHER -> "Other",
             Assets |-> {}]]]

\* what GetAlbums may have handed to the batch: nothing (the call failed or
\* the store listed no album), or some of the albums in the store's order
AlbumLists ==
    { <<>>,
      <<Listing("trip", "old-4"), Listing(Title, "old-1"), Listing(Title, "old-2")>>,
      <<Listing(Title, "old-2"), Listing("Mine", "old-3"), Listing(Title, "old-1")>>,
      <<Listing("Mine", "old-3")>>,
      <<Listing("trip", "old-4"), Listing("Other", "cfg-1")>> }

\* album entries of the configuration: with and without immichAlbumId, with
\* and without albumName
AlbumSettings ==
    [Workers : {1}, StrictMetadata : {FALSE}, SkipVideos : {FALSE},
     ImmichAlbumID : {"", "cfg-1"}, AlbumName : {"", "Mine"}]

InitResolve ==
    /\ cfg \in AlbumSettings
    /\ \E ph \in SubAlbums(1) : source = [Title |-> Title, Photos |-> ph]
    /\ store = ResolveStore
    /\ albumCache \in AlbumLists
    /\ run = 1
    /\ AtEntry
    /\ RunIdle
    /\ RetryIdle
    /\ ParseIdle
    /\ CallsIdle

\* the goroutine of the next due album of the batch gets the semaphore:
\* a.processAlbum(ac, albumCache) with the list fetched before the first one
NextOfBatch ==
    /\ run = 1
    /\ apc \in {"done", "returned"}
    /\ run' = 2
    /\ cfg' \in AlbumSettings
    /\ hist' = [NoHistory EXCEPT !.prev =
                    [complete |-> apc = "done", failed |-> failed,
                     added |-> added, assets |-> store.assets]]
    /\ apc' = "scrape"
    /\ albumId' = "" /\ existingFiles' = EmptyMap /\ globalAssets' = EmptyMap
    /\ photos' = <<>> /\ numWorkers' = 0
    /\ jobs' = <<>> /\ results' = <<>> /\ jobsClosed' = FALSE /\ resultsClosed' = FALSE
    /\ feedIdx' = 1 /\ wpc' = <<>> /\ wjob' = <<>> /\ wres' = <<>>
    /\ processed' = 0 /\ added' = 0 /\ skipped' = 0 /\ failed' = 0
    /\ newAssetIds' = <<>> /\ tracker' = NewTracker
    /\ handled' = <<>> /\ received' = <<>> /\ downloads' = <<>> /\ uploads' = <<>>
    /\ UNCHANGED <<outsideAlbum, source, albumCache, store>>

NextResolve == ProcessAlbum \/ NextOfBatch

\* two processAlbum calls of one batch, one after the other
SpecResolve == InitResolve /\ [][NextResolve]_vars

-----------------------------------------------------------------------------
(* Claims about one album sync *)

Sum(f) ==
    LET S[D \in SUBSET DOMAIN f] ==
            IF D = {} THEN 0
            ELSE LET x == CHOOSE x \in D : TRUE IN f[x] + S[D \ {x}]
    IN  S[DOMAIN f]

Key(i) == BaseName(photos[i].ID)
Res(i) == handled[i][1].res
Pooled == apc \in {"add", "done"}
AlbumHit(i)  == Key(i) \in DOMAIN existingFiles
GlobalHit(i) == ~AlbumHit(i) /\ Key(i) \in DOMAIN globalAssets
CacheMiss(i) == ~AlbumHit(i) /\ Key(i) \notin DOMAIN globalAssets
Batch == SeqToSet(newAssetIds)

\* C1: under every interleaving each scraped item is processed by exactly one
\* worker exactly once and the aggregating loop receives exactly one result per
\* item: never more than one at any moment, exactly one of each when the loop
\* has ended, M results in all.
C1_ExactlyOnce ==
    /\ \A i \in DOMAIN handled :
          /\ Len(handled[i]) <= 1
          /\ received[i] <= Len(handled[i])
    /\ apc \in {"agg", "add", "done"} => processed = Sum(received)
    /\ Pooled =>
          /\ \A i \in Items : Len(handled[i]) = 1 /\ received[i] = 1
          /\ processed = Len(photos)

C1_Witness ==
    /\ apc = "done" /\ numWorkers = 2 /\ Len(photos) = 2
    /\ handled[1][1].by # handled[2][1].by
    /\ processed = 2

\* C2 as stated: after the pool has drained, an item found in the album cache
\* and an item found only in the global cache were neither downloaded nor
\* uploaded, a new item that was uploaded was downloaded and uploaded once,
\* and the asset id of each of them, the album-cache hit included, is in the
\* album-membership batch.
C2_AsStated ==
    Pooled =>
        \A i \in Items :
            /\ AlbumHit(i) =>
                  /\ downloads[i] = 0 /\ uploads[i] = 0
                  /\ existingFiles[Key(i)] \in Batch
            /\ GlobalHit(i) =>
                  /\ downloads[i] = 0 /\ uploads[i] = 0
                  /\ globalAssets[Key(i)] \in Batch
            /\ (CacheMiss(i) /\ Res(i).WasUploaded) =>
                  /\ downloads[i] = 1 /\ uploads[i] = 1
                  /\ Res(i).ID \in Batch

\* C2, amended: an album-cache hit is neither downloaded nor uploaded and
\* returns no id, so nothing is queued for it; a global-cache hit is neither
\* downloaded nor uploaded and its existing id is in the batch; an item in
\* neither cache is downloaded and uploaded at most once, and once each when it
\* is newly uploaded, its id then being in the batch; the batch holds exactly
\* one id per item whose result carries an id.
C2_Dedup ==
    Pooled =>
        /\ \A i \in Items :
            /\ AlbumHit(i) =>
                  /\ downloads[i] = 0 /\ uploads[i] = 0
                  /\ Res(i).ID = "" /\ ~Res(i).WasUploaded
            /\ GlobalHit(i) =>
                  /\ downloads[i] = 0 /\ uploads[i] = 0
                  /\ Res(i).ID = globalAssets[Key(i)]
                  /\ globalAssets[Key(i)] \in Batch
            /\ CacheMiss(i) =>
                  /\ downloads[i] <= 1 /\ uploads[i] <= downloads[i]
                  /\ Res(i).WasUploaded =>
                        /\ downloads[i] = 1 /\ uploads[i] = 1
                        /\ Res(i).ID \in Batch
        /\ Len(newAssetIds) = Cardinality({i \in Items : Res(i).ID # ""})

\* three items, one of each kind: 1 download+upload, 1 reused id, 2 in the batch
C2_Witness ==
    /\ apc = "done" /\ Len(photos) = 3
    /\ AlbumHit(1) /\ GlobalHit(2) /\ CacheMiss(3) /\ Res(3).WasUploaded
    /\ Sum(downloads) = 1 /\ Sum(uploads) = 1
    /\ Len(newAssetIds) = 2
    /\ hist.addOk

\* C5 as stated: with strict-metadata on, every item without a capture
\* timestamp is skipped: no id is returned for it, no upload is attempted, its
\* result is no error and is the one the loop counts as skipped.
C5_AsStated ==
    \A i \in DOMAIN handled :
        (cfg.StrictMetadata /\ photos[i].TakenAtZero /\ handled[i] # <<>>) =>
            /\ Res(i).ID = "" /\ ~Res(i).WasUploaded /\ Res(i).Error = "nil"
            /\ uploads[i] = 0

IsSkip(r) == r.Error = "nil" /\ ~r.WasUploaded /\ r.ID = ""

\* C5, amended: with strict-metadata on, an item without a capture timestamp
\* is never downloaded or uploaded and never an error; unless it is found only
\* in the global cache (its existing id is then returned and no counter but
\* processed changes) no id is returned for it and it is counted as skipped.
\* The skipped count is the number of results received that carry no error,
\* no new upload and no id.
C5_StrictSkip ==
    /\ \A i \in DOMAIN handled :
        (cfg.StrictMetadata /\ photos[i].TakenAtZero /\ handled[i] # <<>>) =>
            /\ downloads[i] = 0 /\ uploads[i] = 0
            /\ Res(i).Error = "nil" /\ ~Res(i).WasUploaded
            /\ GlobalHit(i) => Res(i).ID = globalAssets[Key(i)]
            /\ ~GlobalHit(i) => Res(i) = Result("", FALSE, "nil", 0, 0)
    /\ apc \in {"agg", "add", "done"} =>
          skipped = Cardinality({i \in Items :
                        received[i] = 1 /\ handled[i] # <<>> /\ IsSkip(Res(i))})

C5_Witness ==
    /\ apc = "done" /\ cfg.StrictMetadata
    /\ \E i \in Items :
          /\ photos[i].TakenAtZero /\ CacheMiss(i)
          /\ Res(i).ID = "" /\ uploads[i] = 0
    /\ skipped = 1 /\ failed = 0 /\ added = 1

\* C6: the failed count is the number of results received that carry an
\* error, one per failed item; an error ends nothing: when the aggregating loop
\* has ended every item, failed or not, was dispatched to a worker and its
\* result received, and processAlbum returns early only before any item was
\* dispatched.
C6_ErrorsCounted ==
    /\ apc \in {"agg", "add", "done"} =>
          failed = Cardinality({i \in Items :
                        received[i] >= 1 /\ handled[i] # <<>> /\ Res(i).Error # "nil"})
    /\ Pooled =>
          \A i \in Items :
              (handled[i] # <<>> /\ Res(i).Error # "nil") =>
                  \A j \in Items : Len(handled[j]) >= 1 /\ received[j] >= 1
    /\ apc = "returned" => \A i \in DOMAIN handled : handled[i] = <<>>

C6_Witness ==
    /\ apc = "done" /\ Len(photos) = 2
    /\ Res(1).Error = "download" /\ Res(2).WasUploaded
    /\ failed = 1 /\ added = 1 /\ processed = 2

-----------------------------------------------------------------------------
(* Claims about two syncs in a row *)

\* the first sync ran to its end (it was not aborted by a scrape failure or an
\* empty album)
SecondOfTwo == run = 2 /\ hist.prev.complete

-----------------------------------------------------------------------------
(* Client.doWithRetry: Get and Post of the Google Photos transport *)

maxRetries  == 5
baseBackoff == 5000    \* milliseconds
minJitter   == 100
jitterRange == 250

\* the Retry-After headers the server puts on a 429: none, seconds, and a
\* value time.ParseDuration(retryAfter + "s") rejects
RetryAfterHeaders == {"", "2", "x"}

\* time.ParseDuration(retryAfter + "s"), in milliseconds
ParseSeconds(h) ==
    CASE h = "2" -> [err |-> FALSE, d |-> 2000]
      [] h = "0" -> [err |-> FALSE, d |-> 0]
      [] OTHER   -> [err |-> TRUE,  d |-> 0]

Response(status, retryAfter) == [StatusCode |-> status, RetryAfter |-> retryAfter]

\* a nil *http.Response
NilResp == Response(0, "")

\* The server answers its 429 responses first, in order, and gives its final
\* answer to every later dispatch. A final "neterr" is a transport error:
\* client.Do returns no response.
TransportError(n) == n > Len(server.limited) /\ server.final = "neterr"

ServerAnswer(n) ==
    IF n <= Len(server.limited) THEN Response(429, server.limited[n])
    ELSE IF server.final = "neterr" THEN NilResp
    ELSE IF server.final = "503" THEN Response(503, "")
    ELSE Response(200, "")

\* the attempt number is counted from 0
SleepTimeFromZero(i, r) ==
    IF r.RetryAfter # "" /\ ~ParseSeconds(r.RetryAfter).err
    THEN ParseSeconds(r.RetryAfter).d
    ELSE baseBackoff * i

\* sleepTime := baseBackoff * (i+1), replaced by a Retry-After that parses
SleepTime(i, r) ==
    IF r.RetryAfter # "" /\ ~ParseSeconds(r.RetryAfter).err
    THEN ParseSeconds(r.RetryAfter).d
    ELSE baseBackoff * (i + 1)

Returned(r, e) == [resp |-> r, err |-> e]

\* lines 76-77: the jitter sleep before the first dispatch
Jitter ==
    /\ dpc = "jitter"
    /\ \E j \in {minJitter, minJitter + jitterRange - 1} : slept' = Append(slept, j)
    /\ attempt' = 0
    /\ dpc' = "loop"
    /\ UNCHANGED <<outsideRetry, req, server, resp, ret, dispatched, warned>>

\* line 80 with i = maxRetries, line 106
LoopExit ==
    /\ dpc = "loop" /\ ~(attempt < maxRetries)
    /\ ret' = Returned(resp, "nil")
    /\ dpc' = "returned"
    /\ UNCHANGED <<outsideRetry, req, server, attempt, resp, dispatched, slept, warned>>

\* lines 81-84
MakeReqFails ==
    /\ dpc = "loop" /\ attempt < maxRetries /\ ~req.urlOk
    /\ ret' = Returned(NilResp, "request")
    /\ dpc' = "returned"
    /\ UNCHANGED <<outsideRetry, req, server, attempt, resp, dispatched, slept, warned>>

\* lines 86-89
DoFails ==
    /\ dpc = "loop" /\ attempt < maxRetries /\ req.urlOk
    /\ TransportError(dispatched + 1)
    /\ dispatched' = dispatched + 1
    /\ resp' = NilResp
    /\ ret' = Returned(NilResp, "transport")
    /\ dpc' = "returned"
    /\ UNCHANGED <<outsideRetry, req, server, attempt, slept, warned>>

\* lines 86-93
DoAnswered ==
    /\ dpc = "loop" /\ attempt < maxRetries /\ req.urlOk
    /\ ~TransportError(dispatched + 1)
    /\ ServerAnswer(dispatched + 1).StatusCode # 429
    /\ dispatched' = dispatched + 1
    /\ resp' = ServerAnswer(dispatched + 1)
    /\ ret' = Returned(ServerAnswer(dispatched + 1), "nil")
    /\ dpc' = "returned"
    /\ UNCHANGED <<outsideRetry, req, server, attempt, slept, warned>>

\* lines 86-91 with a 429
DoRateLimited ==
    /\ dpc = "loop" /\ attempt < maxRetries /\ req.urlOk
    /\ ~TransportError(dispatched + 1)
    /\ ServerAnswer(dispatched + 1).StatusCode = 429
    /\ dispatched' = dispatched + 1
    /\ resp' = ServerAnswer(dispatched + 1)
    /\ dpc' = "backoff"
    /\ UNCHANGED <<outsideRetry, req, server, attempt, ret, slept, warned>>

\* the backoff sleeps and the loop variable is left as it was
BackoffSameAttempt ==
    /\ dpc = "backoff"
    /\ warned' = warned + 1
    /\ slept' = Append(slept, SleepTime(attempt, resp))
    /\ attempt' = attempt
    /\ dpc' = "loop"
    /\ UNCHANGED <<outsideRetry, req, server, resp, ret, dispatched>>

\* lines 95-103 and the i++ of line 80
Backoff ==
    /\ dpc = "backoff"
    /\ warned' = warned + 1
    /\ slept' = Append(slept, SleepTime(attempt, resp))
    /\ attempt' = attempt + 1
    /\ dpc' = "loop"
    /\ UNCHANGED <<outsideRetry, req, server, resp, ret, dispatched>>

DoWithRetry ==
    \/ Jitter \/ LoopExit \/ MakeReqFails
    \/ DoFails \/ DoAnswered \/ DoRateLimited \/ Backoff

\* the sequences over S of length at most n
SeqsUpTo(S, n) == UNION {[1..k -> S] : k \in 0..n}

InitRetry ==
    /\ req \in [Method : {"GET", "POST"}, urlOk : BOOLEAN]
    /\ server \in [limited : SeqsUpTo(RetryAfterHeaders, MaxRateLimited),
                   final : {"200", "503", "neterr"}]
    /\ dpc = "jitter" /\ attempt = 0 /\ resp = NilResp
    /\ ret = Returned(NilResp, "pending")
    /\ dispatched = 0 /\ slept = <<>> /\ warned = 0
    /\ SyncIdle
    /\ RunIdle
    /\ ParseIdle
    /\ CallsIdle

NextRetry == DoWithRetry

\* one Get or Post call
SpecRetry == InitRetry /\ [][NextRetry]_vars

-----------------------------------------------------------------------------
(* Claims about the transport *)

\* the call is one goroutine that is never held up for ever: client.Do has a
\* timeout and every sleep is finite
SpecRetryFair == SpecRetry /\ WF_vars(NextRetry)

RateLimited == Len(server.limited)

\* C4 as stated: a Get or Post call answered by k consecutive 429 responses
\* and then a non-429 response returns that non-429 response for every k from
\* 0 up to the retry ceiling; answered by more consecutive 429 responses than
\* the ceiling it returns the last 429 response it received, with no error.
C4_AsStated ==
    (dpc = "returned" /\ req.urlOk) =>
        /\ (RateLimited <= maxRetries /\ server.final # "neterr") =>
                ret = Returned(ServerAnswer(RateLimited + 1), "nil")
        /\ RateLimited > maxRetries =>
                /\ ret.err = "nil"
                /\ ret.resp = ServerAnswer(dispatched)
                /\ ret.resp.StatusCode = 429

-----------------------------------------------------------------------------
(* App.Run: the scheduling loop. Time is in minutes. *)

DefaultInterval == 1440   \* 24 * time.Hour
SleepMinutes    == 1      \* time.Sleep(1 * time.Minute)

\* time.ParseDuration on the SyncInterval strings of the model
ParseDuration(s) ==
    CASE s = "1m" -> [err |-> FALSE, d |-> 1]
      [] s = "0s" -> [err |-> FALSE, d |-> 0]
      [] OTHER    -> [err |-> TRUE,  d |-> 0]   \* "" and "x": invalid duration

IntervalAsParsed(s) == ParseDuration(s).d

\* lines 113-116
Interval(s) ==
    IF ParseDuration(s).err \/ ParseDuration(s).d = 0
    THEN DefaultInterval
    ELSE ParseDuration(s).d

\* lines 74-77
AlbumWorkers ==
    IF runCfg.AlbumWorkers < 1 THEN 1 ELSE runCfg.AlbumWorkers

Albums == runCfg.GooglePhotos
URLs == {Albums[k].URL : k \in DOMAIN Albums}

IsDueAlways(k) == TRUE

\* line 83: time.Now().After(nextRun[ac.URL])
IsDue(k) == now > nextRun[Albums[k].URL]

\* the indices of S, a set of integers, in increasing order
Sorted(S) ==
    LET F[T \in SUBSET S] ==
            IF T = {} THEN <<>>
            ELSE LET m == CHOOSE x \in T : \A y \in T : x <= y
                 IN  <<m>> \o F[T \ {m}]
    IN  F[S]

\* what one processAlbum call of the batch has done so far
NoCycle ==
    [scrape |-> "none", resolve |-> "none",
     downloaded |-> FALSE, uploaded |-> FALSE, add |-> "none"]

NoResched == [at |-> -1, was |-> -1]

\* the worker pool of one processAlbum call: no worker started yet
NoLoad == [workers |-> 0, busy |-> 0]

\* lines 56-60: os.Exit(1)
GetUserFails ==
    /\ rpc = "getUser"
    /\ rpc' = "exited"
    /\ UNCHANGED <<outsideRun, runCfg, now, nextRun, due, loopIdx, listOk, sem, gpc,
                   cycle, lastResched, load>>

\* lines 56-61
GetUserOk ==
    /\ rpc = "getUser"
    /\ rpc' = "configured"
    /\ UNCHANGED <<outsideRun, runCfg, now, nextRun, due, loopIdx, listOk, sem, gpc,
                   cycle, lastResched, load>>

\* lines 63-66
NoAlbums ==
    /\ rpc = "configured" /\ Len(Albums) = 0
    /\ rpc' = "returned"
    /\ UNCHANGED <<outsideRun, runCfg, now, nextRun, due, loopIdx, listOk, sem, gpc,
                   cycle, lastResched, load>>

\* lines 68-77
InitSchedule ==
    /\ rpc = "configured" /\ Len(Albums) # 0
    /\ nextRun' = [u \in URLs |-> now]
    /\ rpc' = "collect"
    /\ UNCHANGED <<outsideRun, runCfg, now, due, loopIdx, listOk, sem, gpc, cycle,
                   lastResched, load>>

\* lines 81-88
Collect ==
    /\ rpc = "collect"
    /\ due' = Sorted({k \in DOMAIN Albums : IsDue(k)})
    /\ rpc' = IF due' # <<>> THEN "getAlbums" ELSE "sleep"
    /\ UNCHANGED <<outsideRun, runCfg, now, nextRun, loopIdx, listOk, sem, gpc, cycle,
                   lastResched, load>>

\* a failed album list ends the process
GetAlbumsFatal ==
    /\ rpc = "getAlbums"
    /\ listOk' \in BOOLEAN
    /\ rpc' = IF listOk' THEN "spawn" ELSE "exited"
    /\ UNCHANGED <<outsideRun, runCfg, now, nextRun, due, loopIdx, sem, gpc, cycle,
                   lastResched, load>>

\* lines 90-93: a failure is logged and the batch goes on with a nil list
GetAlbums ==
    /\ rpc = "getAlbums"
    /\ listOk' \in BOOLEAN
    /\ rpc' = "spawn"
    /\ UNCHANGED <<outsideRun, runCfg, now, nextRun, due, loopIdx, sem, gpc, cycle,
                   lastResched, load>>

\* lines 98-108: the semaphore and one goroutine per due album
Spawn ==
    /\ rpc = "spawn"
    /\ sem' = 0
    /\ gpc' = [i \in DOMAIN due |-> "spawned"]
    /\ cycle' = [i \in DOMAIN due |-> NoCycle]
    /\ load' = [i \in DOMAIN due |-> NoLoad]
    /\ rpc' = "wait"
    /\ UNCHANGED <<outsideRun, runCfg, now, nextRun, due, loopIdx, listOk, lastResched>>

SemFreeAlways == TRUE

\* line 104: a send on the semaphore channel blocks while it is full
SemFree == sem < AlbumWorkers

\* lines 103-106: the goroutine takes a semaphore slot and calls processAlbum
GoAcquire(i) ==
    /\ rpc = "wait" /\ gpc[i] = "spawned"
    /\ SemFree
    /\ sem' = sem + 1
    /\ gpc' = [gpc EXCEPT ![i] = "scrape"]
    /\ UNCHANGED <<outsideRun, runCfg, rpc, now, nextRun, due, loopIdx, listOk, cycle,
                   lastResched, load>>

ScrapeNextIgnoresError(outcome) == "resolve"

\* lines 139-142 and 150-153: the two early returns after ScrapeAlbum. When
\* processAlbum returns the goroutine's deferred calls run, <-sem and then
\* wg.Done(), and the goroutine is done.
ScrapeNext(outcome) == IF outcome \in {"err", "empty"} THEN "done" ELSE "resolve"

\* lines 138-153, and lines 103 and 105 when processAlbum returns
GoScrape(i) ==
    /\ rpc = "wait" /\ gpc[i] = "scrape"
    /\ \E outcome \in {"err", "empty", "ok"} :
          /\ cycle' = [cycle EXCEPT ![i].scrape = outcome]
          /\ gpc' = [gpc EXCEPT ![i] = ScrapeNext(outcome)]
          /\ sem' = IF ScrapeNext(outcome) = "done" THEN sem - 1 ELSE sem
    /\ UNCHANGED <<outsideRun, runCfg, rpc, now, nextRun, due, loopIdx, listOk,
                   lastResched, load>>

\* lines 155-175: the configured id, else a name match in the fetched list,
\* else CreateAlbum, whose failure is logged and leaves albumId empty
ResolveOutcomes(i) ==
    IF Albums[due[i]].ImmichAlbumID # "" THEN {"known"}
    ELSE (IF listOk THEN {"known"} ELSE {}) \cup {"created", "createErr"}

GoResolve(i) ==
    /\ rpc = "wait" /\ gpc[i] = "resolve"
    /\ \E r \in ResolveOutcomes(i) : cycle' = [cycle EXCEPT ![i].resolve = r]
    /\ gpc' = [gpc EXCEPT ![i] = "pool"]
    /\ UNCHANGED <<outsideRun, runCfg, rpc, now, nextRun, due, loopIdx, listOk, sem,
                   lastResched, load>>

\* what processItem does for one item: whether it sends a download request,
\* whether it sends an upload request, whether it hands back an asset id
ItemOutcomes ==
    { [d |-> FALSE, u |-> FALSE, q |-> FALSE],   \* album-cache hit, strict-metadata skip
      [d |-> FALSE, u |-> FALSE, q |-> TRUE],    \* global-cache hit
      [d |-> TRUE,  u |-> FALSE, q |-> FALSE],   \* download error, skipped video
      [d |-> TRUE,  u |-> TRUE,  q |-> FALSE],   \* upload error
      [d |-> TRUE,  u |-> TRUE,  q |-> TRUE] }   \* uploaded, or a duplicate of the store

\* lines 290-296: the membership call is made for a known album and a
\* non-empty batch; its failure is logged
AddOutcomes(resolve, queued) ==
    IF resolve # "createErr" /\ queued THEN {"ok", "err"} ELSE {"skipped"}

\* what the items of an album did between them; it has at least one item
PoolOutcomes ==
    { [d |-> \E o \in S : o.d, u |-> \E o \in S : o.u, q |-> \E o \in S : o.q] :
        S \in SUBSET ItemOutcomes \ {{}} }

\* lines 177-299: the caches, the worker pool, the aggregating loop and the
\* membership call; then processAlbum returns and the deferred calls of lines
\* 103 and 105 run, <-sem and wg.Done()
GoPool(i) ==
    /\ rpc = "wait" /\ gpc[i] = "pool"
    /\ load[i].busy = 0
    /\ \E p \in PoolOutcomes :
          \E a \in AddOutcomes(cycle[i].resolve, p.q) :
              cycle' = [cycle EXCEPT ![i].downloaded = p.d,
                                     ![i].uploaded = p.u,
                                     ![i].add = a]
    /\ gpc' = [gpc EXCEPT ![i] = "done"]
    /\ sem' = sem - 1
    /\ load' = [load EXCEPT ![i] = NoLoad]
    /\ UNCHANGED <<outsideRun, runCfg, rpc, now, nextRun, due, loopIdx, listOk,
                   lastResched>>

\* Run goes on to the rescheduling as soon as one goroutine is done
WaitDoneFirst ==
    /\ rpc = "wait"
    /\ \E i \in DOMAIN gpc : gpc[i] = "done"
    /\ loopIdx' = 1
    /\ rpc' = "resched"
    /\ UNCHANGED <<outsideRun, runCfg, now, nextRun, due, listOk, sem, gpc, cycle,
                   lastResched, load>>

\* line 109: wg.Wait() returns
WaitDone ==
    /\ rpc = "wait"
    /\ \A i \in DOMAIN gpc : gpc[i] = "done"
    /\ loopIdx' = 1
    /\ rpc' = "resched"
    /\ UNCHANGED <<outsideRun, runCfg, now, nextRun, due, listOk, sem, gpc, cycle,
                   lastResched, load>>

\* lines 112-119, one iteration
Resched ==
    /\ rpc = "resched" /\ loopIdx <= Len(due)
    /\ LET ac == Albums[due[loopIdx]]
       IN  /\ nextRun' = [nextRun EXCEPT ![ac.URL] = now + Interval(ac.SyncInterval)]
           /\ lastResched' = [lastResched EXCEPT ![due[loopIdx]] =
                                  [at |-> now, was |-> nextRun[ac.URL]]]
    /\ loopIdx' = loopIdx + 1
    /\ UNCHANGED <<outsideRun, runCfg, rpc, now, due, listOk, sem, gpc, cycle, load>>

\* lines 112 and 120: the loop over due is exhausted, and with it the scope
\* of due, albumCache, sem and wg
ReschedEnd ==
    /\ rpc = "resched" /\ loopIdx > Len(due)
    /\ rpc' = "sleep"
    /\ due' = <<>> /\ gpc' = <<>> /\ cycle' = <<>> /\ loopIdx' = 0 /\ listOk' = FALSE
    /\ lastResched' = [k \in DOMAIN Albums |-> NoResched]
    /\ load' = <<>>
    /\ UNCHANGED <<outsideRun, runCfg, now, nextRun, sem>>

\* the loop body runs once and Run returns
SleepThenReturn ==
    /\ rpc = "sleep"
    /\ now + SleepMinutes <= MaxTime
    /\ now' = now + SleepMinutes
    /\ rpc' = "returned"
    /\ UNCHANGED <<outsideRun, runCfg, nextRun, due, loopIdx, listOk, sem, gpc, cycle,
                   lastResched, load>>

\* line 122
Sleep ==
    /\ rpc = "sleep"
    /\ now + SleepMinutes <= MaxTime
    /\ now' = now + SleepMinutes
    /\ rpc' = "collect"
    /\ UNCHANGED <<outsideRun, runCfg, nextRun, due, loopIdx, listOk, sem, gpc, cycle,
                   lastResched, load>>

\* Time passes between two statements of Run and while it waits for the
\* batch. The goroutines do not read the clock, so the time a batch takes is
\* added when the last of them is done.
Tick ==
    /\ \/ rpc = "collect"
       \/ rpc = "wait" /\ \A i \in DOMAIN gpc : gpc[i] = "done"
    /\ now < MaxTime
    /\ now' = now + 1
    /\ UNCHANGED <<outsideRun, runCfg, rpc, nextRun, due, loopIdx, listOk, sem, gpc,
                   cycle, lastResched, load>>

Run ==
    \/ GetUserFails \/ GetUserOk \/ NoAlbums \/ InitSchedule
    \/ Collect \/ GetAlbums \/ Spawn
    \/ (\E i \in DOMAIN gpc : GoAcquire(i))
    \/ (\E i \in DOMAIN gpc : GoScrape(i))
    \/ (\E i \in DOMAIN gpc : GoResolve(i))
    \/ (\E i \in DOMAIN gpc : GoPool(i))
    \/ WaitDone \/ Resched \/ ReschedEnd \/ Sleep \/ Tick

AlbumConfig(url, interval, id) ==
    [URL |-> url, SyncInterval |-> interval, ImmichAlbumID |-> id]

\* the album entries configurations are made of: one URL is listed twice,
\* one entry names its destination album
AlbumCatalogue ==
    << AlbumConfig("u1", "1m", ""), AlbumConfig("u2", "x", ""),
       AlbumConfig("u1", "", "alb"), AlbumConfig("u3", "0s", "") >>

\* the sub-sequences of the catalogue with at most n entries
SubConfigs(n) ==
    LET Pick(S) ==
            LET F[k \in 0..Len(AlbumCatalogue)] ==
                    IF k = 0 THEN <<>>
                    ELSE IF k \in S THEN Append(F[k - 1], AlbumCatalogue[k])
                    ELSE F[k - 1]
            IN  F[Len(AlbumCatalogue)]
    IN  {Pick(S) : S \in {T \in SUBSET (1..Len(AlbumCatalogue)) : Cardinality(T) <= n}}

\* configurations without a daily start time
RunConfigs ==
    [AlbumWorkers : 0..MaxAlbums, GooglePhotos : SubConfigs(MaxAlbums),
     SyncStartTime : {""}]

InitRun ==
    /\ runCfg \in RunConfigs
    /\ rpc = "getUser" /\ now = 0 /\ nextRun = EmptyMap
    /\ due = <<>> /\ loopIdx = 0 /\ listOk = FALSE /\ sem = 0
    /\ gpc = <<>> /\ cycle = <<>> /\ load = <<>>
    /\ lastResched = [k \in DOMAIN Albums |-> NoResched]
    /\ SyncIdle
    /\ RetryIdle
    /\ ParseIdle
    /\ CallsIdle

NextRun == Run

\* App.Run from its first statement
SpecRun == InitRun /\ [][NextRun]_vars

\* Config.SyncStartTime values ("HH:MM"); the process is started at 00:00
StartTimes == {"00:02"}

\* configurations with a daily start time. Run reads AlbumWorkers and
\* GooglePhotos of the configuration and nothing else.
InitStart ==
    /\ runCfg \in [AlbumWorkers : 0..MaxAlbums, GooglePhotos : SubConfigs(MaxAlbums),
                   SyncStartTime : StartTimes]
    /\ rpc = "getUser" /\ now = 0 /\ nextRun = EmptyMap
    /\ due = <<>> /\ loopIdx = 0 /\ listOk = FALSE /\ sem = 0
    /\ gpc = <<>> /\ cycle = <<>> /\ load = <<>>
    /\ lastResched = [k \in DOMAIN Albums |-> NoResched]
    /\ SyncIdle
    /\ RetryIdle
    /\ ParseIdle
    /\ CallsIdle

NextStart == Run

\* App.Run under a configuration that sets syncStartTime
SpecStart == InitStart /\ [][NextStart]_vars

-----------------------------------------------------------------------------
(* The network load of a cycle: the album goroutines of Run together with
   the workers each processAlbum call starts. A worker performs its calls one
   after the other (content probe, download read to its end, upload), so a
   worker inside processItem has at most one call in flight; processAlbum
   itself calls the source and the asset store only before it starts the
   workers and after the result channel is closed. *)
(***************************************************************************)

\* processAlbum starts its workers: as many as configured, at least one, at
\* most one per item
PoolStart(i) ==
    /\ rpc = "wait" /\ gpc[i] = "pool" /\ load[i].workers = 0
    /\ \E total \in 1..MaxItems :
          load' = [load EXCEPT ![i].workers = NumWorkers(cfg.Workers, total)]
    /\ UNCHANGED <<outsideRun, runCfg, rpc, now, nextRun, due, loopIdx, listOk, sem,
                   gpc, cycle, lastResched>>

\* a worker takes a photo from the job channel and enters processItem
WorkerBegin(i) ==
    /\ rpc = "wait" /\ gpc[i] = "pool"
    /\ load[i].busy < load[i].workers
    /\ load' = [load EXCEPT ![i].busy = @ + 1]
    /\ UNCHANGED <<outsideRun, runCfg, rpc, now, nextRun, due, loopIdx, listOk, sem,
                   gpc, cycle, lastResched>>

\* processItem returns and the worker sends its result
WorkerEnd(i) ==
    /\ rpc = "wait" /\ gpc[i] = "pool"
    /\ load[i].busy > 0
    /\ load' = [load EXCEPT ![i].busy = @ - 1]
    /\ UNCHANGED <<outsideRun, runCfg, rpc, now, nextRun, due, loopIdx, listOk, sem,
                   gpc, cycle, lastResched>>

InitLoad ==
    /\ runCfg \in RunConfigs
    /\ rpc = "getUser" /\ now = 0 /\ nextRun = EmptyMap
    /\ due = <<>> /\ loopIdx = 0 /\ listOk = FALSE /\ sem = 0
    /\ gpc = <<>> /\ cycle = <<>> /\ load = <<>>
    /\ lastResched = [k \in DOMAIN Albums |-> NoResched]
    /\ cfg \in {WorkersOnly(w) : w \in 0..MaxWorkers}
    /\ PoolIdle
    /\ RetryIdle
    /\ ParseIdle
    /\ CallsIdle

NextLoad ==
    \/ Run
    \/ \E i \in DOMAIN gpc : PoolStart(i)
    \/ \E i \in DOMAIN gpc : WorkerBegin(i)
    \/ \E i \in DOMAIN gpc : WorkerEnd(i)

\* App.Run with the workers of every album sync
SpecLoad == InitLoad /\ [][NextLoad]_vars

(***************************************************************************)
(* Claims about the scheduling loop *)

\* the goroutines that are inside processAlbum
Executing == {i \in DOMAIN gpc : gpc[i] \in {"scrape", "resolve", "pool"}}

\* the goroutines that hold a semaphore slot
Holding == {i \in DOMAIN gpc : gpc[i] \notin {"spawned", "done"}}

\* C10: at every moment the number of album syncs executing processAlbum is
\* at most the configured concurrent-album count, taken as 1 when it is below
\* 1, however many albums are due; with the count unset or 1 at most one
\* album is being processed at a time.
C10_BoundedAlbums ==
    /\ Cardinality(Executing) <=
          (IF runCfg.AlbumWorkers < 1 THEN 1 ELSE runCfg.AlbumWorkers)
    /\ runCfg.AlbumWorkers <= 1 => Cardinality(Executing) <= 1

\* more albums are due than may run: one is inside processAlbum, another has
\* been spawned and waits for the semaphore
C10_Witness ==
    /\ Len(due) > (IF runCfg.AlbumWorkers < 1 THEN 1 ELSE runCfg.AlbumWorkers)
    /\ \E i, j \in DOMAIN gpc :
          /\ gpc[i] = "pool" /\ gpc[j] = "spawned"
          /\ Cardinality(Executing) =
                (IF runCfg.AlbumWorkers < 1 THEN 1 ELSE runCfg.AlbumWorkers)

\* The phase of configured album k. Returned is the tail of Running: its
\* processAlbum call is over and Run has not rescheduled it yet.
Phase(k) ==
    IF rpc \notin {"getAlbums", "spawn", "wait", "resched"}
          \/ ~\E i \in DOMAIN due : due[i] = k
    THEN "Idle"
    ELSE LET i == CHOOSE j \in DOMAIN due : due[j] = k
         IN  CASE rpc \in {"getAlbums", "spawn"} -> "Due"
               [] rpc = "wait" ->
                    (CASE gpc[i] = "spawned" -> "Due"
                       [] gpc[i] = "done" -> "Returned"
                       [] OTHER -> "Running")
               [] OTHER -> IF loopIdx > i THEN "Idle" ELSE "Returned"

PhaseSteps ==
    { <<"Idle", "Due">>, <<"Due", "Running">>, <<"Running", "Returned">>,
      <<"Returned", "Idle">> }

C9_State ==
    \A k \in DOMAIN Albums :
        /\ Phase(k) \in {"Due", "Running"} => now > nextRun[Albums[k].URL]
        /\ Cardinality({i \in DOMAIN due : due[i] = k}) <= 1

C9_Step ==
    \A k \in DOMAIN Albums :
        Phase(k)' # Phase(k) =>
            /\ <<Phase(k), Phase(k)'>> \in PhaseSteps
            /\ Phase(k)' = "Idle" =>
                  /\ lastResched'[k].at = now
                  /\ ~(now > nextRun'[Albums[k].URL])

\* C9: each configured album only moves Idle -> Due -> Running -> Idle: it
\* is collected and started only when the clock is past its next-due time, it
\* is in at most one sync of a batch, and once its sync has returned the only
\* step it can take is the rescheduling that makes it idle again.
C9_Lifecycle == []C9_State /\ [][C9_Step]_vars

\* an album has gone round once and is running its second sync
C9_Witness ==
    \E k \in DOMAIN Albums :
        /\ Phase(k) = "Running"
        /\ nextRun[Albums[k].URL] > 0

\* the interval the configuration gives album k: 24h when the string is
\* missing, does not parse, or is zero
ConfiguredInterval(k) ==
    LET str == Albums[k].SyncInterval
    IN  IF str = "" \/ ParseDuration(str).err \/ ParseDuration(str).d = 0
        THEN DefaultInterval
        ELSE ParseDuration(str).d

\* Run has rescheduled the album at position i of the batch
Rescheduled(i) == rpc = "resched" /\ loopIdx > i

C7_Step ==
    \A k \in DOMAIN Albums :
        (Phase(k) = "Returned" /\ Phase(k)' = "Idle") =>
            /\ nextRun'[Albums[k].URL] = now + ConfiguredInterval(k)
            /\ ~(now > nextRun'[Albums[k].URL])

C7_State ==
    (rpc = "resched" /\ loopIdx > Len(due)) =>
        \A i \in DOMAIN due : lastResched[due[i]].at = now

\* C7: when the batch is over every due album is rescheduled, whatever its
\* processAlbum call did, and the rescheduling sets its next-due time to the
\* current time plus its configured interval (24h when the string is missing,
\* unparseable or zero) whatever the previous next-due time was, so that the
\* album is not due again at once.
C7_Rescheduled == []C7_State /\ [][C7_Step]_vars

\* two albums of one batch rescheduled: one with a 1m interval that was
\* overdue by two intervals or more, one whose scrape failed and whose
\* interval string does not parse
C7_Witness ==
    \E i, j \in DOMAIN due :
        /\ Rescheduled(i) /\ Rescheduled(j)
        /\ Albums[due[i]].SyncInterval = "1m"
        /\ lastResched[due[i]].at - lastResched[due[i]].was >= 2
        /\ nextRun[Albums[due[i]].URL] = lastResched[due[i]].at + 1
        /\ cycle[j].scrape = "err"
        /\ Albums[due[j]].SyncInterval = "x"
        /\ nextRun[Albums[due[j]].URL] = lastResched[due[j]].at + DefaultInterval

ScrapeFailed(i) == cycle[i].scrape = "err"
CreateFailed(i) == cycle[i].resolve = "createErr"

\* a failed album gives its semaphore slot back and the batch ends with
\* every goroutine done
C8_OthersGoOn ==
    /\ sem = Cardinality(Holding)
    /\ rpc = "resched" => \A i \in DOMAIN gpc : gpc[i] = "done"

\* every album of the batch, failed or not, is rescheduled into the future
C8_ScheduleAdvances ==
    \A i \in DOMAIN due :
        Rescheduled(i) =>
            /\ lastResched[due[i]].at = now
            /\ nextRun[Albums[due[i]].URL] > now

\* C8 as stated: after a scrape failure or an album-creation failure no item
\* of that album is downloaded or uploaded in that cycle, the other albums go
\* on, and the failed album is still rescheduled.
C8_AsStated ==
    /\ \A i \in DOMAIN cycle :
          (ScrapeFailed(i) \/ CreateFailed(i)) =>
              ~cycle[i].downloaded /\ ~cycle[i].uploaded
    /\ C8_OthersGoOn
    /\ C8_ScheduleAdvances

\* C8, amended: a scrape failure ends the album's cycle before anything else
\* is done for it: no album is resolved or created, no item is downloaded or
\* uploaded, no membership call is made. An album-creation failure does not end
\* the cycle: the items are still processed, and only the membership call is
\* left out. In both cases the other albums go on and the album is rescheduled.
C8_AlbumErrors ==
    /\ \A i \in DOMAIN cycle :
          /\ ScrapeFailed(i) =>
                /\ gpc[i] = "done"
                /\ cycle[i] = [NoCycle EXCEPT !.scrape = "err"]
          /\ CreateFailed(i) => cycle[i].add \in {"none", "skipped"}
    /\ C8_OthersGoOn
    /\ C8_ScheduleAdvances

\* a batch of two: the scrape of one album failed, the other album was
\* created, uploaded to and filled, and both have been rescheduled
C8_Witness ==
    \E i, j \in DOMAIN due :
        /\ Rescheduled(i) /\ Rescheduled(j)
        /\ ScrapeFailed(i)
        /\ cycle[j].resolve = "created" /\ cycle[j].uploaded /\ cycle[j].add = "ok"

(***************************************************************************)
(* Claims about the network load *)
(***************************************************************************)

\* a count that is taken as 1 when it is unset or below 1
AtLeastOne(n) == IF n < 1 THEN 1 ELSE n

\* the network calls album i can have in flight: one per worker inside
\* processItem, else the one call processAlbum itself is making
InFlight(i) ==
    IF gpc[i] = "pool" /\ load[i].busy > 0 THEN load[i].busy
    ELSE IF i \in Executing THEN 1 ELSE 0

RECURSIVE SumInFlight(_)
SumInFlight(S) ==
    IF S = {} THEN 0
    ELSE LET i == CHOOSE x \in S : TRUE IN InFlight(i) + SumInFlight(S \ {i})

\* C11: at every moment the network calls in flight on behalf of album syncs
\* are at most the worker count per album times the concurrent-album count
\* (each taken as 1 when set below 1), and within one album sync at most
\* worker-count items are being processed at once.
C11_BoundedLoad ==
    /\ SumInFlight(DOMAIN gpc) <=
          AtLeastOne(cfg.Workers) * AtLeastOne(runCfg.AlbumWorkers)
    /\ \A i \in DOMAIN load : load[i].busy <= AtLeastOne(cfg.Workers)

\* the bound is met: two albums run at once and each has two workers inside
\* processItem
C11_Witness ==
    /\ cfg.Workers = 2 /\ runCfg.AlbumWorkers = 2
    /\ Cardinality({i \in DOMAIN load : gpc[i] = "pool" /\ load[i].busy = 2}) = 2

-----------------------------------------------------------------------------
(* Claims about the end of Run *)

\* GetUser has answered without an error
Connected == rpc \notin {"getUser", "exited"}

\* Run is inside its for loop
InLoop == rpc \in {"collect", "getAlbums", "spawn", "wait", "resched", "sleep"}

\* C12 as stated: once the connectivity check has succeeded there is no state
\* in which Run has returned.
C12_AsStated == Connected => rpc # "returned"

C12_State == (Connected /\ Len(Albums) > 0) => rpc # "returned"

C12_Step == InLoop => InLoop'

\* C12: once the connectivity check has succeeded and at least one album is
\* configured, Run never returns and the scheduling loop, once entered, is
\* never left.
C12_LoopForever == []C12_State /\ [][C12_Step]_vars

\* the loop has gone round: a batch was synced and rescheduled, Run has slept
\* and is collecting again
C12_Witness ==
    /\ rpc = "collect" /\ now > 1
    /\ \E u \in URLs : nextRun[u] > 0

\* some call made for album i in this cycle has failed: the scrape, the album
\* creation, the membership update, or an item that was downloaded and not
\* queued (download or upload error)
AlbumFailure(i) ==
    \/ cycle[i].scrape = "err"
    \/ cycle[i].resolve = "createErr"
    \/ cycle[i].add = "err"
    \/ cycle[i].downloaded /\ cycle[i].add = "skipped"

C13_State ==
    /\ rpc = "exited" => (nextRun = EmptyMap /\ due = <<>>)
    /\ (\E i \in DOMAIN cycle : AlbumFailure(i)) => InLoop
    /\ (due # <<>> /\ rpc \notin {"getAlbums"} /\ ~listOk) => InLoop

C13_Step ==
    /\ (rpc' = "exited" /\ rpc # "exited") => rpc = "getUser"
    /\ (InLoop /\ ((\E i \in DOMAIN cycle : AlbumFailure(i)) \/ ~listOk))
          => InLoop'

-----------------------------------------------------------------------------
(* Claims about the shared structures of an album sync *)

\* the workers, the feeder and the closer run beside the aggregating loop
PoolRunning == apc = "agg"

\* the step is one iteration of the aggregating loop: a result leaves the
\* channel, and no worker and no feeder moves in it
AggregatorStep ==
    /\ results # <<>> /\ results' = Tail(results)
    /\ UNCHANGED <<wpc, wjob, wres, jobs, feedIdx>>

\* the counter went through one atomic Add of 0 or 1
OneAdd(before, after) == after \in {Add(before, 0), Add(before, 1)}

C14_State ==
    apc \in {"agg", "add", "done", "returned"} =>
        /\ tracker.processedItems = processed
        /\ tracker.addedItems = added
        /\ tracker.skippedItems = skipped
        /\ tracker.failedItems = failed

C14_Step ==
    /\ (PoolRunning /\ PoolRunning') => UNCHANGED <<existingFiles, globalAssets>>
    /\ (PoolRunning /\ <<processed, added, skipped, failed, newAssetIds>>' #
                       <<processed, added, skipped, failed, newAssetIds>>)
          => AggregatorStep
    /\ (PoolRunning /\ tracker' # tracker) =>
          /\ AggregatorStep
          /\ OneAdd(tracker.processedItems, tracker'.processedItems)
          /\ OneAdd(tracker.addedItems, tracker'.addedItems)
          /\ OneAdd(tracker.skippedItems, tracker'.skippedItems)
          /\ OneAdd(tracker.failedItems, tracker'.failedItems)

\* C14: during an album sync the two dedup caches are never written after
\* the workers are started, the upload-id list and the processed, added,
\* skipped and failed counters are written only by the aggregating loop, and
\* the tracker's counters change only by atomic additions.
C14_NoSharedWrites == []C14_State /\ [][C14_Step]_vars

\* two workers are started, one is inside processItem and reads the caches
\* while the aggregating loop has counted the other's result
C14_Witness ==
    /\ PoolRunning /\ Cardinality(Workers) = 2
    /\ \E w \in Workers : wpc[w] = "process"
    /\ processed = 1 /\ tracker.processedItems = 1

-----------------------------------------------------------------------------
(* googlephotos: the values decoded from the page's JSON. A decoded value is
   null, a string, a number or an array; a string of decimal digits carries
   the number it spells in n. Numbers that stand for a time are counted in
   units of 10^6 and every one is a multiple of the unit, also after the
   division by 1000. *)

Null      == [t |-> "null", s |-> "",       n |-> 0, a |-> <<>>]
Str(s)    == [t |-> "str",  s |-> s,        n |-> 0, a |-> <<>>]
Digits(n) == [t |-> "str",  s |-> "digits", n |-> n, a |-> <<>>]
Num(n)    == [t |-> "num",  s |-> "",       n |-> n, a |-> <<>>]
Arr(a)    == [t |-> "arr",  s |-> "",       n |-> 0, a |-> a]

\* v.(string) with the zero value when the assertion fails
AsString(v) == IF v.t = "str" THEN v.s ELSE ""

\* extractInt: a string that strconv.ParseInt accepts, or a float64
ExtractInt(v) ==
    IF v.t = "str" /\ v.s = "digits" THEN [ok |-> TRUE, i |-> v.n]
    ELSE IF v.t = "num" THEN [ok |-> TRUE, i |-> v.n]
    ELSE [ok |-> FALSE, i |-> 0]

\* 1e15, 1e10 and 946684800000 in units of 10^6; for a multiple t of the unit
\* t > 946684800000 is t > 946684 units
MicroLimit   == 1000000000
SecondsLimit == 10000
UnitFactor   == 1000
Floor2000    == 946684

\* normalizeTimestamp: microseconds and seconds to milliseconds
NormalizeTimestamp(t) ==
    IF t > MicroLimit THEN t \div UnitFactor
    ELSE IF t > 0 /\ t < SecondsLimit THEN t * UnitFactor
    ELSE t

\* time.Time{} and time.UnixMilli(ms)
ZeroTime      == [isZero |-> TRUE,  ms |-> 0]
UnixMilli(ms) == [isZero |-> FALSE, ms |-> ms]

\* no floor: every time before the limit counts
PlausibleNoFloor(t, limit) == t < limit

\* the test of lines 885 and 892: after the floor, before now + 24h
Plausible(t, limit) == t > Floor2000 /\ t < limit

\* lines 881-896 for element i: the candidates it adds, in the order added
CandidatesAt(v, limit) ==
    LET nested == IF v.t = "arr" /\ Len(v.a) > 0 THEN ExtractInt(v.a[1])
                  ELSE [ok |-> FALSE, i |-> 0]
        own    == ExtractInt(v)
        tn     == NormalizeTimestamp(nested.i)
        to     == NormalizeTimestamp(own.i)
    IN  (IF nested.ok /\ Plausible(tn, limit) THEN <<tn>> ELSE <<>>) \o
        (IF own.ok /\ Plausible(to, limit) THEN <<to>> ELSE <<>>)

RECURSIVE CollectCandidates(_, _, _)
CollectCandidates(arr, i, limit) ==
    IF i > Len(arr) THEN <<>>
    ELSE CandidatesAt(arr[i], limit) \o CollectCandidates(arr, i + 1, limit)

\* lines 904-909: the loop that keeps the smallest
RECURSIVE Best(_, _, _)
Best(candidates, i, best) ==
    IF i > Len(candidates) THEN best
    ELSE Best(candidates, i + 1, IF candidates[i] < best THEN candidates[i] ELSE best)

\* extractTimestamp; itemArr[2] of the source is arr[3] here
ExtractTimestamp(arr, limit) ==
    LET candidates == CollectCandidates(arr, 3, limit)
    IN  IF Len(candidates) = 0 THEN ZeroTime
        ELSE UnixMilli(Best(candidates, 2, candidates[1]))

(* extractTimestamp applied to one item array *)

MaxCandidates == 2

\* candidate numbers: zero, a negative one, seconds before and after the
\* floor, milliseconds around the floor, microseconds before and after the
\* 1e15 mark
TimeValues ==
    {0, -5, 946, 947, 1600, 946684, 946685, 1500000, 950000000, 1600000000}

\* the limits tried, and the milliseconds just before, at and after each
Deadlines == {1700000, 1800000}

NearDeadline == UNION {{d - 1, d, d + 1} : d \in Deadlines}

\* the forms a candidate takes in an item array, and elements that are none
Elements ==
    UNION {{Num(c), Digits(c), Arr(<<Num(c)>>)} : c \in TimeValues \cup NearDeadline}
      \cup {Str("caption"), Null, Arr(<<>>)}

ItemHead == <<Str("id1"), Arr(<<Str("url1")>>)>>

Pending == [isZero |-> TRUE, ms |-> -1]

InitTime ==
    /\ \E tail \in SeqsUpTo(Elements, MaxCandidates) : itemArr = ItemHead \o tail
    /\ deadline \in Deadlines
    /\ takenAt = Pending
    /\ ScrapeIdle /\ ScanIdle
    /\ SyncIdle /\ RunIdle /\ RetryIdle
    /\ CallsIdle

Extract ==
    /\ takenAt = Pending
    /\ takenAt' = ExtractTimestamp(itemArr, deadline)
    /\ UNCHANGED <<outsideParse, scrapeVars, scanVars, itemArr, deadline>>

NextTime == Extract

SpecTime == InitTime /\ [][NextTime]_vars

-----------------------------------------------------------------------------
(* Claims about extractTimestamp *)

\* the numbers found in the item array from its third element on, each as
\* itself or as the first element of a nested array, after normalization
Normalized ==
    {NormalizeTimestamp(ExtractInt(itemArr[i]).i) :
        i \in {j \in 3..Len(itemArr) : ExtractInt(itemArr[j]).ok}}
    \cup
    {NormalizeTimestamp(ExtractInt(itemArr[i].a[1]).i) :
        i \in {j \in 3..Len(itemArr) :
                 /\ itemArr[j].t = "arr" /\ Len(itemArr[j].a) > 0
                 /\ ExtractInt(itemArr[j].a[1]).ok}}

Least(S) == CHOOSE x \in S : \A y \in S : x <= y

MinOrUnknown(S) == IF S = {} THEN ZeroTime ELSE UnixMilli(Least(S))

-----------------------------------------------------------------------------
(* ScrapeAlbum, lines 447-501: the scan for the first '[' after the data
   anchor and for the ']' that closes it. The text is a sequence of
   characters, positions count from 1, and 0 stands for the -1 of the
   source. *)

\* lines 449-455: the first '[' at or after position i
RECURSIVE FindStart(_, _)
FindStart(t, i) ==
    IF i > Len(t) THEN 0
    ELSE IF t[i] = "[" THEN i
    ELSE FindStart(t, i + 1)

\* the locals of the balancing loop before its first iteration
ScanStart == [balance |-> 0, inString |-> FALSE, escape |-> FALSE, hit |-> FALSE]

\* a backslash is a character like any other
ScanStepNoEscape(char, st) ==
    IF char = "\"" THEN [st EXCEPT !.inString = ~st.inString]
    ELSE IF ~st.inString /\ char = "[" THEN [st EXCEPT !.balance = @ + 1]
    ELSE IF ~st.inString /\ char = "]"
         THEN [st EXCEPT !.balance = @ - 1, !.hit = (st.balance - 1 = 0)]
    ELSE st

\* lines 467-494: one iteration of the balancing loop; hit when the loop
\* breaks with jsonEnd set
ScanStep(char, st) ==
    IF st.escape THEN [st EXCEPT !.escape = FALSE]
    ELSE IF char = "\\" THEN [st EXCEPT !.escape = TRUE]
    ELSE IF char = "\"" THEN [st EXCEPT !.inString = ~st.inString]
    ELSE IF ~st.inString /\ char = "[" THEN [st EXCEPT !.balance = @ + 1]
    ELSE IF ~st.inString /\ char = "]"
         THEN [st EXCEPT !.balance = @ - 1, !.hit = (st.balance - 1 = 0)]
    ELSE st

\* lines 466-495: the position of the closing ']', 0 when the text ends first
RECURSIVE ScanLoop(_, _, _)
ScanLoop(t, i, st) ==
    IF i > Len(t) THEN 0
    ELSE LET n == ScanStep(t[i], st)
         IN  IF n.hit THEN i ELSE ScanLoop(t, i + 1, n)

Found(first, last, err) == [jsonStart |-> first, jsonEnd |-> last, err |-> err]

NotScanned == Found(0, 0, "pending")

\* lines 447-501
FindArray(t) ==
    LET jsonStart == FindStart(t, 1)
        jsonEnd   == ScanLoop(t, jsonStart, ScanStart)
    IN  IF jsonStart = 0 THEN Found(0, 0, "could not find start of JSON array")
        ELSE IF jsonEnd = 0 THEN Found(jsonStart, 0, "could not find end of JSON array")
        ELSE Found(jsonStart, jsonEnd, "nil")

(* the scan applied to one text *)

MaxText == 7

\* the characters the scan tells apart, and one it does not look at
Chars == {"[", "]", "\"", "\\", "a"}

InitScan ==
    /\ text \in SeqsUpTo(Chars, MaxText)
    /\ json = NotScanned
    /\ ScrapeIdle /\ TimeIdle
    /\ SyncIdle /\ RunIdle /\ RetryIdle
    /\ CallsIdle

ScanText ==
    /\ json = NotScanned
    /\ json' = FindArray(text)
    /\ UNCHANGED <<outsideParse, scrapeVars, timeVars, text>>

NextScan == ScanText

SpecScan == InitScan /\ [][NextScan]_vars

-----------------------------------------------------------------------------
(* Claims about the bracket-balancing scan *)

\* A JSON string starts before position i: the position of the quote that
\* ends it, 0 when the text ends inside the string. A backslash takes the
\* character after it with it.
RECURSIVE EndOfString(_, _)
EndOfString(t, i) ==
    IF i > Len(t) THEN 0
    ELSE IF t[i] = "\"" THEN i
    ELSE IF t[i] = "\\" THEN EndOfString(t, i + 2)
    ELSE EndOfString(t, i + 1)

\* An array was opened before position i: the position of the ']' that
\* closes it, 0 when the text ends inside the array, -1 when a backslash
\* stands outside every string (no JSON). Elements are strings, arrays and
\* other characters.
RECURSIVE EndOfArray(_, _)
EndOfArray(t, i) ==
    IF i > Len(t) THEN 0
    ELSE IF t[i] = "]" THEN i
    ELSE IF t[i] = "\\" THEN -1
    ELSE IF t[i] = "\"" THEN
        LET e == EndOfString(t, i + 1)
        IN  IF e = 0 THEN 0 ELSE EndOfArray(t, e + 1)
    ELSE IF t[i] = "[" THEN
        LET e == EndOfArray(t, i + 1)
        IN  IF e <= 0 THEN e ELSE EndOfArray(t, e + 1)
    ELSE EndOfArray(t, i + 1)

FirstBracket == CHOOSE i \in 1..Len(text) : text[i] = "[" /\ \A j \in 1..(i - 1) : text[j] # "["

HasBracket == \E i \in 1..Len(text) : text[i] = "["

\* C19: when the text holds a balanced array after the anchor, the scan
\* selects exactly the characters from the first '[' to the ']' that closes
\* it, brackets inside strings not counted and an escaped quote not ending a
\* string; when the text ends before the first '[' is closed, the scan fails.
C19_SelectsArray ==
    (json # NotScanned /\ HasBracket) =>
        LET e == EndOfArray(text, FirstBracket + 1)
        IN  /\ e > 0 => json = Found(FirstBracket, e, "nil")
            /\ e = 0 => (json.err = "could not find end of JSON array" /\ json.jsonEnd = 0)

\* a string that holds an escaped quote and a bracket: the scan ends at the
\* seventh character
C19_Witness ==
    /\ text = <<"[", "\"", "\\", "\"", "]", "\"", "]">>
    /\ json = Found(1, 7, "nil")

-----------------------------------------------------------------------------
(* googlephotos: the item parser and the deduplication *)

ScrapedPhoto(id, url, w, h, taken, desc) ==
    [ID |-> id, URL |-> url, Width |-> w, Height |-> h, TakenAt |-> taken,
     Description |-> desc]

\* lines 659-665: the first non-empty string from itemArr[3] on
RECURSIVE FirstDescription(_, _)
FirstDescription(arr, i) ==
    IF i > Len(arr) THEN ""
    ELSE IF AsString(arr[i]) # "" THEN AsString(arr[i])
    ELSE FirstDescription(arr, i + 1)

\* lines 633-678: one iteration of the loop of parsePhotoItems, the photos
\* it appends
ParseItem(item, limit) ==
    IF item.t # "arr" \/ Len(item.a) < 2 THEN <<>>
    ELSE LET id       == AsString(item.a[1])
             mediaArr == item.a[2]
         IN  IF mediaArr.t # "arr" \/ Len(mediaArr.a) < 1 THEN <<>>
             ELSE LET photoURL == AsString(mediaArr.a[1])
                      sized    == Len(mediaArr.a) >= 3
                      w == IF sized /\ mediaArr.a[2].t = "num" THEN mediaArr.a[2].n ELSE 0
                      h == IF sized /\ mediaArr.a[3].t = "num" THEN mediaArr.a[3].n ELSE 0
                  IN  IF photoURL # ""
                      THEN <<ScrapedPhoto(id, photoURL, w, h,
                                          ExtractTimestamp(item.a, limit),
                                          FirstDescription(item.a, 4))>>
                      ELSE <<>>

\* parsePhotoItems
RECURSIVE ParsePhotoItems(_, _, _)
ParsePhotoItems(list, i, limit) ==
    IF i > Len(list) THEN <<>>
    ELSE ParseItem(list[i], limit) \o ParsePhotoItems(list, i + 1, limit)

\* every photo is kept
KeepAll(p, kept) == TRUE

\* a photo without an id is kept
KeepNoID(p, kept) == p.ID \notin kept

\* deduplicatePhotos, line 867: whether photo p is appended when the ids in
\* kept have been seen
Keep(p, kept) == p.ID # "" /\ p.ID \notin kept

-----------------------------------------------------------------------------
(* googlephotos: the RPC page. A line of the response body is given by
   whether it contains "wrb.fr", by what it decodes to (Invalid when it is
   no JSON) and by what the payload string inside it decodes to. *)

Invalid == [t |-> "invalid", s |-> "", n |-> 0, a |-> <<>>]

Line(wrb, envelope, payload) == [wrb |-> wrb, envelope |-> envelope, payload |-> payload]

PageResult(ps, token, err) == [photos |-> ps, token |-> token, err |-> err]

\* json.Unmarshal into a []interface{}: a JSON array decodes, and so does
\* the JSON null, which leaves the slice nil; every other value is an error
DecodesToSlice(v) == v.t \in {"arr", "null"}

\* the RPC id of the envelope is not compared
ValidEnvelopeAnyRpc(line) ==
    /\ line.wrb
    /\ DecodesToSlice(line.envelope) /\ Len(line.envelope.a) > 0
    /\ line.envelope.a[1].t = "arr" /\ Len(line.envelope.a[1].a) >= 3
    /\ AsString(line.envelope.a[1].a[3]) # ""
    /\ DecodesToSlice(line.payload)

\* lines 802-837: whether the line is an envelope of this request with a
\* payload that decodes
ValidEnvelope(line) ==
    /\ line.wrb
    /\ DecodesToSlice(line.envelope) /\ Len(line.envelope.a) > 0
    /\ line.envelope.a[1].t = "arr" /\ Len(line.envelope.a[1].a) >= 3
    /\ AsString(line.envelope.a[1].a[2]) = "snAcKc"
    /\ AsString(line.envelope.a[1].a[3]) # ""
    /\ DecodesToSlice(line.payload)

\* lines 839-856: the photos and the token of a decoded payload
FromPayload(payload, limit) ==
    PageResult(IF Len(payload.a) > 1 /\ payload.a[2].t = "arr"
                   THEN ParsePhotoItems(payload.a[2].a, 1, limit) ELSE <<>>,
               IF Len(payload.a) > 2 THEN AsString(payload.a[3]) ELSE "",
               "nil")

\* parseBatchResponse: the first valid envelope decides
RECURSIVE ParseBatchResponse(_, _, _)
ParseBatchResponse(body, i, limit) ==
    IF i > Len(body)
        THEN PageResult(<<>>, "", "no valid response envelope found in batchexecute response")
    ELSE IF ValidEnvelope(body[i]) THEN FromPayload(body[i].payload, limit)
    ELSE ParseBatchResponse(body, i + 1, limit)

Served(err, status, body) == [err |-> err, status |-> status, body |-> body]

\* fetchNextPage, lines 780-795, on what the Post returned
FetchNextPage(r, limit) ==
    IF r.err # "nil" THEN PageResult(<<>>, "", "batchexecute request failed")
    ELSE IF r.status # 200 THEN PageResult(<<>>, "", "batchexecute returned status")
    ELSE ParseBatchResponse(r.body, 1, limit)

-----------------------------------------------------------------------------
(* googlephotos.ScrapeAlbum from the decoded first page on: the first items,
   the continuation token, the pagination loop, the deduplication. The
   source is given by what it serves: the decoded data of the first page (or
   the error of the steps before), the media key in the URL, and the answers
   to the RPC page requests in their order. *)

maxPages == 500

\* len(tok) of the strings met at data[2] and after
StrLen(s) ==
    CASE s = "" -> 0
      [] s = "short" -> 5
      [] OTHER -> 12

\* lines 532-547: data[2] when it is a non-empty string, else the first
\* string of more than 10 characters from data[2] on
FirstToken(data) ==
    IF data.token # "" THEN data.token
    ELSE IF StrLen(data.later) > 10 THEN data.later
    ELSE ""

\* lines 553-563: the key of the URL path, else data[3][0]
MediaKey(s) == IF s.urlKey # "" THEN s.urlKey ELSE s.data.metaKey

\* the answer to the n-th RPC page request: the scripted ones first, then
\* the same page for ever or a page without items
NthPage(s, n) ==
    IF n <= Len(s.pages) THEN s.pages[n] ELSE s.after

NoAlbum == [err |-> "pending", Photos |-> <<>>]

\* lines 400-528: every step before the first items has succeeded or one has
\* failed; the items of the first page are parsed
ScrapeFirst ==
    /\ spc = "first"
    /\ IF site.err # "nil"
       THEN /\ album' = [err |-> site.err, Photos |-> <<>>]
            /\ spc' = "returned"
            /\ UNCHANGED <<scraped, continueToken, warnings, stopped>>
       ELSE /\ scraped' = ParsePhotoItems(site.data.list, 1, deadline)
            /\ continueToken' = FirstToken(site.data)
            /\ IF FirstToken(site.data) = ""
               THEN spc' = "dedup" /\ stopped' = "no token" /\ UNCHANGED warnings
               ELSE IF MediaKey(site) = ""
               THEN /\ spc' = "dedup" /\ stopped' = "no media key"
                    /\ warnings' = Append(warnings, "could not determine album mediaKey")
               ELSE spc' = "paginate" /\ UNCHANGED <<warnings, stopped>>
            /\ UNCHANGED album
    /\ UNCHANGED <<outsideParse, scanVars, timeVars, site, page, fetches, dedupVars>>

\* pages are fetched up to the ceiling and one more
FetchPageOnceMore ==
    /\ spc = "paginate"
    /\ page <= maxPages /\ continueToken # ""
    /\ LET r == FetchNextPage(NthPage(site, fetches + 1), deadline)
       IN  /\ fetches' = fetches + 1
           /\ IF r.err # "nil"
              THEN /\ warnings' = Append(warnings, "pagination stopped")
                   /\ stopped' = r.err /\ spc' = "dedup"
                   /\ UNCHANGED <<scraped, continueToken, page>>
              ELSE IF Len(r.photos) = 0
              THEN /\ stopped' = "no items" /\ spc' = "dedup"
                   /\ UNCHANGED <<scraped, continueToken, page, warnings>>
              ELSE /\ scraped' = scraped \o r.photos
                   /\ continueToken' = r.token
                   /\ page' = page + 1
                   /\ UNCHANGED <<spc, stopped, warnings>>
    /\ UNCHANGED <<outsideParse, scanVars, timeVars, site, dedupVars, album>>

\* lines 577-589: one iteration of the pagination loop
FetchPage ==
    /\ spc = "paginate"
    /\ page < maxPages /\ continueToken # ""
    /\ LET r == FetchNextPage(NthPage(site, fetches + 1), deadline)
       IN  /\ fetches' = fetches + 1
           /\ IF r.err # "nil"
              THEN /\ warnings' = Append(warnings, "pagination stopped")
                   /\ stopped' = r.err /\ spc' = "dedup"
                   /\ UNCHANGED <<scraped, continueToken, page>>
              ELSE IF Len(r.photos) = 0
              THEN /\ stopped' = "no items" /\ spc' = "dedup"
                   /\ UNCHANGED <<scraped, continueToken, page, warnings>>
              ELSE /\ scraped' = scraped \o r.photos
                   /\ continueToken' = r.token
                   /\ page' = page + 1
                   /\ UNCHANGED <<spc, stopped, warnings>>
    /\ UNCHANGED <<outsideParse, scanVars, timeVars, site, dedupVars, album>>

\* line 577: the loop condition fails
EndPagination ==
    /\ spc = "paginate"
    /\ ~(page < maxPages /\ continueToken # "")
    /\ stopped' = IF continueToken = "" THEN "no token" ELSE "ceiling"
    /\ spc' = "dedup"
    /\ UNCHANGED <<outsideParse, scanVars, timeVars, site, scraped, continueToken, page,
                   fetches, warnings, dedupVars, album>>

\* deduplicatePhotos, lines 866-871: one iteration of its loop
DeduplicatePhotos ==
    /\ spc = "dedup"
    /\ dedupIdx <= Len(scraped)
    /\ LET p == scraped[dedupIdx]
       IN  IF Keep(p, seen)
           THEN seen' = seen \cup {p.ID} /\ result' = Append(result, p)
           ELSE UNCHANGED <<seen, result>>
    /\ dedupIdx' = dedupIdx + 1
    /\ UNCHANGED <<outsideParse, scanVars, timeVars, site, spc, scraped, continueToken,
                   page, fetches, warnings, stopped, album>>

\* lines 596-602: the loop of deduplicatePhotos is over and ScrapeAlbum
\* returns the album
ReturnAlbum ==
    /\ spc = "dedup"
    /\ dedupIdx > Len(scraped)
    /\ album' = [err |-> "nil", Photos |-> result]
    /\ spc' = "returned"
    /\ UNCHANGED <<outsideParse, scanVars, timeVars, site, scraped, continueToken, page,
                   fetches, warnings, stopped, dedupVars>>

ScrapeAlbum ==
    ScrapeFirst \/ FetchPage \/ EndPagination \/ DeduplicatePhotos \/ ReturnAlbum

(* the sources *)

MaxFirst  == 1
MaxScript == 2

Timed == Arr(<<Num(1500000)>>)

\* item arrays: two good ones, one that repeats an id under another URL, one
\* without an id, one without a URL, one that is too short
ItemCatalogue ==
    { Arr(<<Str("id1"), Arr(<<Str("url1"), Num(4), Num(3)>>), Timed, Str("caption")>>),
      Arr(<<Str("id2"), Arr(<<Str("url2")>>)>>),
      Arr(<<Str("id1"), Arr(<<Str("url1b")>>)>>),
      Arr(<<Null, Arr(<<Str("url3")>>)>>),
      Arr(<<Str("id4"), Arr(<<Null>>)>>),
      Arr(<<Str("id5")>>) }

Envelope(rpcId) == Arr(<<Arr(<<Str("wrb.fr"), Str(rpcId), Str("payload")>>)>>)

Noise == Line(FALSE, Invalid, Invalid)

\* a 200 answer whose body has a line of noise and then the envelope with
\* these items and this token
PageOf(items, token) ==
    Served("nil", 200,
           <<Noise, Line(TRUE, Envelope("snAcKc"), Arr(<<Null, Arr(items), Str(token)>>))>>)

\* RPC answers: pages with items and a token, a page that overlaps the first
\* page and has an item without id, a last page, a page without items, a
\* page whose items have no URL, a failed request, a body without an
\* envelope of the request
PageCatalogue ==
    { PageOf(<<Arr(<<Str("id2"), Arr(<<Str("url2")>>)>>)>>, "tok2"),
      PageOf(<<Arr(<<Str("id1"), Arr(<<Str("url1b")>>)>>),
               Arr(<<Null, Arr(<<Str("url3")>>)>>)>>, "tok3"),
      PageOf(<<Arr(<<Str("id3"), Arr(<<Str("url3")>>)>>)>>, ""),
      PageOf(<<>>, "tok4"),
      PageOf(<<Arr(<<Str("id4"), Arr(<<Null>>)>>)>>, "tok5"),
      Served("transport", 0, <<>>),
      Served("nil", 200, <<Noise, Line(TRUE, Envelope("other"), Arr(<<>>))>>) }

Data(list, token, later, metaKey) ==
    [list |-> list, token |-> token, later |-> later, metaKey |-> metaKey]

\* data[2], a later string, the key of the URL, data[3][0]: the token and
\* the media key each found at its first place, at its second, or nowhere
Finds ==
    { <<"tok1", "", "key", "">>, <<"tok1", "", "", "metakey">>, <<"tok1", "", "", "">>,
      <<"", "a-long-token", "key", "">>, <<"", "short", "key", "">>,
      <<"", "", "key", "">> }

Site(err, data, urlKey, pages, after) ==
    [err |-> err, data |-> data, urlKey |-> urlKey, pages |-> pages, after |-> after]

\* sources that answer the scripted pages and then a page without items
FiniteSites ==
    { Site("nil", Data(list, f[1], f[2], f[4]), f[3], pages, PageOf(<<>>, "")) :
        list \in SeqsUpTo(ItemCatalogue, MaxFirst), f \in Finds,
        pages \in SeqsUpTo(PageCatalogue, MaxScript) }

\* sources whose every page has an item and a token
EndlessSites ==
    { Site("nil", Data(list, "tok1", "", ""), "key", <<>>,
           PageOf(<<Arr(<<Str("id2"), Arr(<<Str("url2")>>)>>)>>, "more")) :
        list \in SeqsUpTo(ItemCatalogue, MaxFirst) }

\* sources whose first page cannot be fetched or decoded
FailedSites ==
    { Site(e, Data(<<>>, "", "", ""), "key", <<>>, PageOf(<<>>, "")) :
        e \in {"failed to fetch album", "could not find album data (ds:1) in page",
               "could not find end of JSON array", "failed to parse album JSON"} }

InitScrape ==
    /\ site \in FiniteSites \cup EndlessSites \cup FailedSites
    /\ spc = "first" /\ scraped = <<>> /\ continueToken = ""
    /\ page = 0 /\ fetches = 0 /\ warnings = <<>> /\ stopped = "" /\ album = NoAlbum
    /\ dedupIdx = 1 /\ seen = {} /\ result = <<>>
    /\ itemArr = <<>> /\ deadline = 1700000 /\ takenAt = 0
    /\ ScanIdle
    /\ SyncIdle /\ RunIdle /\ RetryIdle
    /\ CallsIdle

NextScrape == ScrapeAlbum

SpecScrape == InitScrape /\ [][NextScrape]_vars

\* the call is one goroutine that is never held up for ever
SpecScrapeFair == SpecScrape /\ WF_vars(NextScrape)

-----------------------------------------------------------------------------
(* Claims about ScrapeAlbum *)

\* what the n-th RPC page request gave
NthResult(n) == FetchNextPage(NthPage(site, n), deadline)

C15_State ==
    /\ fetches <= maxPages
    /\ (spc # "first" /\ site.err = "nil" /\ FirstToken(site.data) = "") => fetches = 0
    /\ stopped # "" => spc \in {"dedup", "returned"}

C15_Step ==
    fetches' # fetches =>
        /\ fetches' = fetches + 1
        /\ continueToken # "" /\ stopped = ""
        /\ fetches > 0 => (NthResult(fetches).err = "nil" /\ Len(NthResult(fetches).photos) > 0)

\* C15: pagination always terminates: at most 500 page fetches are made
\* whatever tokens the source returns, none is made after an empty token, a
\* page without items or a failed fetch, and none at all when the first page
\* yields no continuation token; ScrapeAlbum returns.
C15_Terminates == []C15_State /\ [][C15_Step]_vars /\ <>(spc = "returned")

\* a source whose every page has a token: ScrapeAlbum has returned after 500
\* page fetches
C15_Witness == spc = "returned" /\ fetches = maxPages /\ continueToken # ""

\* the ids of the photos collected from the first page and the RPC pages
CollectedIds == {scraped[i].ID : i \in DOMAIN scraped} \ {""}

ReturnedIds == {album.Photos[i].ID : i \in DOMAIN album.Photos}

\* pagination ended on a failed page fetch, on a body without an envelope of
\* the request, for want of a media key, or at the page-count ceiling
StoppedShort ==
    stopped \in {"batchexecute request failed", "batchexecute returned status",
                 "no valid response envelope found in batchexecute response",
                 "no media key", "ceiling"}

\* C16 as stated: when pagination stops on a failed page fetch, an
\* unrecognized envelope, an unresolved media key or the page-count ceiling,
\* ScrapeAlbum succeeds, returns every item collected up to the stop, and a
\* warning is raised.
C16_AsStated ==
    (spc = "returned" /\ StoppedShort) =>
        /\ album.err = "nil"
        /\ ReturnedIds = CollectedIds
        /\ warnings # <<>>

\* the same with the ceiling left out
C16_ExceptCeiling ==
    (spc = "returned" /\ StoppedShort /\ stopped # "ceiling") =>
        /\ album.err = "nil"
        /\ ReturnedIds = CollectedIds
        /\ warnings # <<>>

\* at the ceiling the items are returned and no warning is printed
C16_SilentCeiling ==
    (spc = "returned" /\ stopped = "ceiling") =>
        /\ album.err = "nil"
        /\ ReturnedIds = CollectedIds
        /\ warnings = <<>>

\* the positions of scraped that hold the first occurrence of an id
Firsts ==
    {i \in DOMAIN scraped :
        scraped[i].ID # "" /\ \A j \in 1..(i - 1) : scraped[j].ID # scraped[i].ID}

\* the place of the first occurrence at position i among the first
\* occurrences
Rank(i) == Cardinality({j \in Firsts : j <= i})

\* C17: the list ScrapeAlbum returns has no two items with the same
\* identifier; of the items that share an identifier over the first page and
\* the RPC pages it holds the first one fetched, and the items it holds are
\* in the order in which they were fetched.
C17_FirstOccurrences ==
    (spc = "returned" /\ album.err = "nil") =>
        /\ \A i, j \in DOMAIN album.Photos :
              album.Photos[i].ID = album.Photos[j].ID => i = j
        /\ Len(album.Photos) = Cardinality(Firsts)
        /\ \A i \in Firsts : album.Photos[Rank(i)] = scraped[i]

\* the first page has id1, an RPC page has id2, the next has id1 again under
\* another URL: id1 with its first URL and id2 are returned, in that order
C17_Witness ==
    /\ spc = "returned" /\ Len(album.Photos) = 2
    /\ album.Photos[1].ID = "id1" /\ album.Photos[1].URL = "url1"
    /\ album.Photos[2].ID = "id2"
    /\ \E i \in DOMAIN scraped : scraped[i].ID = "id1" /\ scraped[i].URL = "url1b" /\ i > 2

\* C18: every item of the list ScrapeAlbum returns has a non-empty
\* identifier and a non-empty URL; an item array that lacks either is dropped
\* and no error is raised for it.
C18_IdAndUrl ==
    spc = "returned" =>
        /\ \A i \in DOMAIN album.Photos :
              album.Photos[i].ID # "" /\ album.Photos[i].URL # ""
        /\ site.err = "nil" => album.err = "nil"

\* the first page has the item without a URL, an RPC page the item without
\* an id beside a good one: the album comes back with the good one alone
C18_Witness ==
    /\ spc = "returned" /\ album.err = "nil"
    /\ site.data.list = <<Arr(<<Str("id4"), Arr(<<Null>>)>>)>>
    /\ \E i \in DOMAIN scraped : scraped[i].ID = "" /\ scraped[i].URL = "url3"
    /\ Len(album.Photos) = 1 /\ album.Photos[1].ID = "id1"

-----------------------------------------------------------------------------
(* Claims about processItem and the statistics of one album sync *)

\* DownloadMedia returned the item with isVideo = true: the item reached the
\* download, the download succeeded and the probe answered a video type
ClassifiedVideo(i) ==
    /\ handled[i] # <<>>
    /\ downloads[i] = 1 /\ Res(i).Error # "download"
    /\ IsVideoType(photos[i].ct)

\* the results the aggregating loop has taken so far
Taken == {i \in DOMAIN received : received[i] >= 1 /\ handled[i] # <<>>}

BytesDown == [i \in Taken |-> Res(i).BytesDownloaded]
BytesUp   == [i \in Taken |-> Res(i).BytesUploaded]

\* C21: with skip-videos enabled, an item that DownloadMedia classifies as a
\* video is never uploaded and yields no asset id and no error, and its result
\* carries the bytes downloaded for it; the tracker's bytes-downloaded counter
\* is the sum over all results taken, the skipped videos included.
C21_SkipVideos ==
    /\ \A i \in DOMAIN handled :
          (cfg.SkipVideos /\ ClassifiedVideo(i)) =>
              /\ uploads[i] = 0
              /\ Res(i).ID = "" /\ ~Res(i).WasUploaded /\ Res(i).Error = "nil"
              /\ Res(i).BytesDownloaded = photos[i].size
              /\ Res(i).BytesUploaded = 0
    /\ apc \in {"agg", "add", "done"} =>
          /\ tracker.bytesDownloaded = Sum(BytesDown)
          /\ tracker.bytesUploaded = Sum(BytesUp)

\* a sync that skipped a video of 3 bytes and uploaded a photo of 2
C21_Witness ==
    /\ apc = "done" /\ cfg.SkipVideos /\ Len(photos) = 2
    /\ Res(1).WasUploaded
    /\ ClassifiedVideo(2) /\ photos[2].size = 3 /\ uploads[2] = 0
    /\ store.assets # {} /\ \A a \in store.assets : a.Content # photos[2].ID
    /\ tracker.bytesDownloaded = 5 /\ tracker.bytesUploaded = 2
    /\ skipped = 1 /\ added = 1

\* the pool of the sync has been started
PoolStarted == apc \in {"agg", "add", "done"}

\* cfg.Workers with a missing (zero) count read as 1
Configured == IF cfg.Workers = 0 THEN 1 ELSE cfg.Workers

Least3(a, b, c) == CHOOSE m \in {a, b, c} : m <= a /\ m <= b /\ m <= c

\* C22 as stated: the number of workers started for an album sync is
\* min(configured workers, item count, 1), a missing count being read as 1.
C22_AsStated ==
    PoolStarted =>
        /\ numWorkers = Least3(Configured, Len(photos), 1)
        /\ Cardinality(Workers) = numWorkers

\* C22, amended: the number of workers started for an album sync is the
\* configured count, read as 1 when it is missing or below 1, and cut down to
\* the item count when there are fewer items: min(max(configured, 1), items).
\* That many worker goroutines exist, and both channels hold twice as many.
C22_WorkerCount ==
    PoolStarted =>
        /\ numWorkers = (IF Configured <= Len(photos) THEN Configured ELSE Len(photos))
        /\ numWorkers >= 1
        /\ Workers = 1..numWorkers
        /\ Len(jobs) <= 2 * numWorkers /\ Len(results) <= 2 * numWorkers

\* two configured workers and two items: two workers inside processItem
C22_Witness ==
    /\ apc = "agg" /\ cfg.Workers = 2 /\ Len(photos) = 2
    /\ numWorkers = 2
    /\ \A w \in Workers : wpc[w] = "process"

-----------------------------------------------------------------------------
(* Claims about the retry loop *)

\* the sleeps after the jitter sleep
BackoffSleeps == IF slept = <<>> THEN <<>> ELSE Tail(slept)

\* the last request dispatched ended in a transport error
LastDispatchFailed == dispatched > 0 /\ TransportError(dispatched)

C23_State ==
    /\ dispatched <= maxRetries
    /\ Len(BackoffSleeps) <= maxRetries /\ warned = Len(BackoffSleeps)
    /\ Len(BackoffSleeps) <= dispatched
    /\ LastDispatchFailed =>
          /\ dpc = "returned" /\ ret = Returned(NilResp, "transport")
          /\ Len(BackoffSleeps) = dispatched - 1
    /\ (dpc = "returned" /\ ret.err = "transport") => LastDispatchFailed

\* C23: every Get or Post call returns, after at most maxRetries (5)
\* dispatches of the request and at most 5 backoff sleeps, whatever the server
\* answers; a transport error ends the call in the step of the failed
\* dispatch, with that error, no response and no further dispatch or sleep.
C23_Terminates == []C23_State /\ <>(dpc = "returned")

\* a server that answers 429 more often than the ceiling: five dispatches,
\* five sleeps, and the call has returned
C23_Witness ==
    /\ dpc = "returned" /\ RateLimited > maxRetries
    /\ dispatched = maxRetries /\ Len(BackoffSleeps) = maxRetries

\* the Retry-After header of the k-th 429 response of the call
HeaderOf(k) == server.limited[k]

-----------------------------------------------------------------------------
(* Claims about the daily start time *)

\* the minute of the day a start time "HH:MM" names
MinuteOfDay(hhmm) == IF hhmm = "00:02" THEN 2 ELSE 0

\* an album sync has been started: a goroutine is inside processAlbum or has
\* left it
SyncBegun == \E i \in DOMAIN gpc : gpc[i] \in {"scrape", "resolve", "pool", "done"}

\* C25 as stated: when a daily start time is configured, no album sync starts
\* before that time of day is reached.
C25_AsStated ==
    (runCfg.SyncStartTime # "" /\ SyncBegun) =>
        now >= MinuteOfDay(runCfg.SyncStartTime)

\* what Run does instead: the first batch is started on the first pass of
\* the loop that follows the start of the process, whatever start time is set
C25_StartsAtOnce ==
    /\ runCfg.SyncStartTime = "00:02" /\ now = 1
    /\ SyncBegun

-----------------------------------------------------------------------------
(* Claims about assets in the trash *)

\* the asset of item i, uploaded by this tool in an earlier sync, is in the
\* trash of the asset store
InTrash(i) ==
    \E a \in store.assets :
        /\ a.Id \in store.trash /\ a.DeviceId = DeviceId
        /\ a.Content = photos[i].ID

\* C26 as stated: an item whose asset was moved to trash in the asset store
\* is detected and skipped by a later sync: it is neither downloaded nor
\* uploaded again.
C26_AsStated ==
    \A i \in DOMAIN handled :
        (InTrash(i) /\ handled[i] # <<>>) =>
            downloads[i] = 0 /\ uploads[i] = 0

\* the device search answered without the trashed asset: the item is sent
\* again and the store answers with the id of the asset in the trash, which
\* goes into the membership batch
C26_SentAgain ==
    /\ apc = "done" /\ hist.searchOk
    /\ \E i \in Items :
          /\ InTrash(i) /\ CacheMiss(i)
          /\ downloads[i] = 1 /\ uploads[i] = 1
          /\ Res(i).ID \in store.trash /\ Res(i).ID \in Batch

-----------------------------------------------------------------------------
(* Claims about the membership update and the end of the pool *)

\* the worker pool has drained: the feeder closed the job queue, every worker
\* left its loop, the results channel is closed and empty
Drained ==
    /\ jobsClosed /\ jobs = <<>>
    /\ \A w \in Workers : wpc[w] = "done"
    /\ resultsClosed /\ results = <<>>

\* the results that carry no error and a non-empty id
WithId == {i \in Items : handled[i] # <<>> /\ Res(i).Error = "nil" /\ Res(i).ID # ""}

Occurrences(s, x) == Cardinality({k \in DOMAIN s : s[k] = x})

\* C27: in one album sync AddAssetsToAlbum is invoked at most once, only
\* after the pool has drained and the result of every item has been
\* aggregated, and only when a destination album id was resolved and at least
\* one asset id was collected; its id list holds exactly the non-empty ids of
\* the results without an error, one entry per such result. When the sync
\* ends with an album id and a collected id, it was invoked.
C27_OneUpdate ==
    /\ hist.addCalls <= 1
    /\ hist.addCalls = 1 =>
          /\ apc = "done" /\ Drained
          /\ \A i \in Items : Len(handled[i]) = 1 /\ received[i] = 1
          /\ albumId # "" /\ Len(hist.batch) > 0
          /\ hist.batch = newAssetIds
          /\ Len(hist.batch) = Cardinality(WithId)
          /\ \A i \in WithId :
                Occurrences(hist.batch, Res(i).ID) =
                    Cardinality({j \in WithId : Res(j).ID = Res(i).ID})
          /\ \A k \in DOMAIN hist.batch : \E i \in WithId : Res(i).ID = hist.batch[k]
    /\ (apc = "done" /\ albumId # "" /\ newAssetIds # <<>>) => hist.addCalls = 1
    /\ (apc = "done" /\ (albumId = "" \/ newAssetIds = <<>>)) => hist.addCalls = 0

\* three items: one failed, one without an id, one with an id that is the
\* whole batch of the one update
C27_Witness ==
    /\ apc = "done" /\ Len(photos) = 3 /\ hist.addCalls = 1 /\ hist.addOk
    /\ failed = 1 /\ skipped = 1 /\ Len(hist.batch) = 1

\* a goroutine of the pool waits on a channel: the feeder on a full job
\* queue, a worker on a full results channel
FeederBlocked == ~jobsClosed /\ feedIdx <= Len(photos) /\ Len(jobs) = ChanCap
WorkerBlocked == \E w \in Workers : wpc[w] = "send" /\ Len(results) = ChanCap

C28_State ==
    /\ Len(jobs) <= ChanCap /\ Len(results) <= ChanCap
    /\ apc = "add" =>
          /\ Drained
          /\ \A i \in Items : received[i] = 1

\* C28: an album sync with at least one item and any worker count cannot
\* deadlock: when every per-item call returns, in every interleaving and with
\* job and result buffers of 2 x workers, a sync whose pool was started
\* reaches the membership-update step, and it reaches it with the job queue
\* closed, every worker gone, the results channel closed and every result
\* aggregated.
C28_NoDeadlock == []C28_State /\ ((apc = "agg") ~> (apc = "add"))

\* one worker, three items: the worker waits on the full results channel
\* while the aggregating loop has taken nothing yet
C28_Witness ==
    /\ apc = "agg" /\ numWorkers = 1 /\ Len(photos) = 3
    /\ WorkerBlocked /\ processed = 0
    /\ jobsClosed

-----------------------------------------------------------------------------
(* Claims about the order of the checks of processItem *)

InBoth(i) == Key(i) \in DOMAIN existingFiles /\ Key(i) \in DOMAIN globalAssets

\* C29: processItem consults the album cache, then the global cache, then
\* the strict-metadata rule, and only then probes and downloads. An item
\* whose key is in a cache triggers no probe, no download and no upload,
\* whatever the strict-metadata and skip-videos flags are: in the album cache
\* (also when the global cache holds it too) it returns no id, so nothing is
\* queued for it; in the global cache only, it returns the id found there. An
\* item in neither cache is downloaded unless strict-metadata skips it.
C29_CheckOrder ==
    \A i \in DOMAIN handled :
        handled[i] # <<>> =>
            /\ Key(i) \in DOMAIN existingFiles =>
                  /\ Res(i) = Result("", FALSE, "nil", 0, 0)
                  /\ downloads[i] = 0 /\ uploads[i] = 0
            /\ (Key(i) \notin DOMAIN existingFiles /\ Key(i) \in DOMAIN globalAssets) =>
                  /\ Res(i) = Result(globalAssets[Key(i)], FALSE, "nil", 0, 0)
                  /\ downloads[i] = 0 /\ uploads[i] = 0
            /\ (Key(i) \notin DOMAIN existingFiles /\ Key(i) \notin DOMAIN globalAssets) =>
                  IF cfg.StrictMetadata /\ photos[i].TakenAtZero
                  THEN downloads[i] = 0 /\ uploads[i] = 0
                  ELSE downloads[i] = 1

\* both flags set: item 1 is in both caches and returns nothing, item 2 has
\* no date, is in the global cache only and returns the id found there
C29_Witness ==
    /\ apc = "done" /\ cfg.StrictMetadata /\ cfg.SkipVideos
    /\ Len(photos) >= 2
    /\ InBoth(1) /\ Res(1).ID = ""
    /\ GlobalHit(2) /\ photos[2].TakenAtZero /\ Res(2).ID = globalAssets[Key(2)]
    /\ newAssetIds = <<globalAssets[Key(2)]>>
    /\ Sum(downloads) = 0


-----------------------------------------------------------------------------
(* Claims about the outcome of an upload *)

\* processItem sent the upload request for item i, and the answer it got
UploadSent(i) == handled[i] # <<>> /\ uploads[i] = 1
Up(i) == handled[i][1].up

NonSuccess(a) == a.status \notin 200..299
NoUsableId(a) == a.body \in {"noid", "empty"}

\* as stated: every answer with a status outside 200..299 makes the item's
\* result an error
C30_AsStated ==
    \A i \in DOMAIN handled :
        (UploadSent(i) /\ (NonSuccess(Up(i)) \/ NoUsableId(Up(i)))) =>
            Res(i).Error # "nil"

\* C30: an upload that ends with a status of 400 or above, or with any other
\* answer that carries no asset id or an empty one, and no other upload, makes
\* the item's result an error without id; such an item is counted as failed,
\* is not counted as added and contributes no id to the membership batch.
C30_UploadErrors ==
    /\ \A i \in DOMAIN handled :
          UploadSent(i) =>
              /\ (Up(i).status >= 400 \/ NoUsableId(Up(i))) <=> Res(i).Error # "nil"
              /\ Res(i).Error # "nil" =>
                    /\ Res(i).ID = "" /\ ~Res(i).WasUploaded
                    /\ Res(i).BytesUploaded = 0
    /\ PoolStarted =>
          /\ failed = Cardinality({i \in Taken : Res(i).Error # "nil"})
          /\ added = Cardinality({i \in Taken : Res(i).WasUploaded})
          /\ Len(newAssetIds) = Cardinality({i \in Taken : Res(i).ID # ""})
          /\ SeqToSet(newAssetIds) = {Res(i).ID : i \in {j \in Taken : Res(j).ID # ""}}

\* a sync of two photos: the upload of one ended with status 500 although the
\* body named an asset, the other with status 201 and an empty id
C30_Witness ==
    /\ apc = "done" /\ Len(photos) = 2
    /\ UploadSent(1) /\ Up(1) = Answer(500, "id")
    /\ UploadSent(2) /\ Up(2) = Answer(201, "empty")
    /\ failed = 2 /\ added = 0 /\ newAssetIds = <<>>
    /\ hist.addCalls = 0


-----------------------------------------------------------------------------
(* Claims about the global cache and the destination album *)

\* the device search of this sync failed
SearchFailed == hist.searchErrPage > 0

\* the search of this sync is over
Searched == apc \in {"start", "agg", "add", "done"}

\* as stated: after a failed search every item that the album cache does not
\* hold is downloaded and uploaded
C31_AsStated ==
    \A i \in DOMAIN handled :
        (SearchFailed /\ handled[i] # <<>> /\ ~AlbumHit(i)) =>
            downloads[i] = 1 /\ uploads[i] = 1

C31_State ==
    /\ ~Searched => \A i \in DOMAIN handled : handled[i] = <<>>
    /\ (SearchFailed /\ Searched) => globalAssets = EmptyMap
    /\ \A i \in DOMAIN handled :
          (SearchFailed /\ handled[i] # <<>> /\ ~AlbumHit(i)) =>
              IF cfg.StrictMetadata /\ photos[i].TakenAtZero
              THEN downloads[i] = 0 /\ uploads[i] = 0
              ELSE /\ downloads[i] = 1
                   /\ uploads[i] = 1 <=>
                        /\ Res(i).Error # "download"
                        /\ ~(cfg.SkipVideos /\ IsVideoType(photos[i].ct))

C31_Step ==
    globalAssets' # globalAssets => apc = "search" /\ apc' = "start"

\* C31: the global cache is assigned in one step of the sync, the device
\* search, before any worker handles an item; when the search fails on any
\* page the sync goes on with an empty global cache, the entries of the pages
\* fetched before being dropped, so that every item missing from the album
\* cache is treated as a miss: unless the strict-metadata rule skips it, it is
\* downloaded, and it is uploaded when the download succeeds and it is not a
\* video skipped by the skip-videos setting.
C31_SearchFailure == []C31_State /\ [][C31_Step]_vars

\* the search failed on its second page, after a first page with an asset of
\* this tool; the photo of that asset, which is not in the album, was
\* downloaded and sent again
C31_Witness ==
    /\ apc = "done" /\ hist.searchErrPage = 2
    /\ Prior2 \in store.assets
    /\ \E i \in Items :
          /\ photos[i].ID = Prior2.Content /\ ~AlbumHit(i)
          /\ downloads[i] = 1 /\ uploads[i] = 1
          /\ Res(i).ID = "asset-2" /\ ~Res(i).WasUploaded


\* the id of the first entry of `list` named `title`, "" when there is none
RECURSIVE FirstNamed(_, _)
FirstNamed(list, title) ==
    IF list = <<>> THEN ""
    ELSE IF Head(list).AlbumName = title THEN Head(list).Id
    ELSE FirstNamed(Tail(list), title)

\* the title the sync looks for
Wanted == IF cfg.AlbumName # "" THEN cfg.AlbumName ELSE source.Title

\* the step that settles the destination album
Resolving == apc = "resolve" /\ apc' = "getAlbum"

C32_Step ==
    /\ albumCache' = albumCache
    /\ Resolving =>
          /\ cfg.ImmichAlbumID # "" => albumId' = cfg.ImmichAlbumID
          /\ (cfg.ImmichAlbumID = "" /\ FirstNamed(albumCache, Wanted) # "") =>
                albumId' = FirstNamed(albumCache, Wanted)
          /\ (cfg.ImmichAlbumID = "" /\ FirstNamed(albumCache, Wanted) = "") =>
                \/ /\ albumId' \notin DOMAIN store.albums
                   /\ store'.albums = WithAlbum(store, albumId', Wanted).albums
                \/ albumId' = "" /\ hist'.createErr /\ store' = store
          /\ (cfg.ImmichAlbumID # "" \/ FirstNamed(albumCache, Wanted) # "") =>
                store' = store /\ hist'.createErr = hist.createErr
    /\ ~Resolving => DOMAIN store'.albums = DOMAIN store.albums
    /\ (albumId' # albumId /\ ~Resolving) => albumId' = ""

\* C32: the destination album of a sync is the configured album id when one
\* is set; otherwise the first album of the pre-fetched list whose name equals
\* the album title exactly (the configured name when set, else the scraped
\* title); an album is created only when neither yields an id, and only in
\* that step; the list is the one the batch was started with and no sync of
\* the batch changes it.
C32_Destination == [][C32_Step]_vars

\* the second sync of a batch whose list held no album of the title: the first
\* sync created one, the second one did not find it in the list and created
\* another of the same name
C32_Witness ==
    /\ run = 2 /\ apc = "done"
    /\ cfg.ImmichAlbumID = "" /\ cfg.AlbumName = ""
    /\ albumCache = <<Listing("trip", "old-4"), Listing("Other", "cfg-1")>>
    /\ albumId = "new-2"
    /\ store.albums["new-1"].AlbumName = Title
    /\ store.albums["new-2"].AlbumName = Title


-----------------------------------------------------------------------------
(* Invariants of the counters and of the per-item results *)

\* the number of results the aggregating loop has taken from the channel
ResultsReceived ==
    LET F[k \in 0..Len(received)] == IF k = 0 THEN 0 ELSE F[k - 1] + received[k]
    IN  F[Len(received)]

Counted == added + skipped + failed

C33_State ==
    PoolStarted =>
        /\ processed = ResultsReceived
        /\ Counted <= processed /\ processed <= Len(photos)
        /\ tracker.processedItems = processed
        /\ tracker.addedItems = added /\ tracker.skippedItems = skipped
        /\ tracker.failedItems = failed
        /\ apc \in {"add", "done"} => processed = Len(source.Photos)

C33_Step ==
    (apc = "agg" /\ processed' # processed) =>
        /\ processed' = processed + 1
        /\ added' \in {added, added + 1}
        /\ skipped' \in {skipped, skipped + 1}
        /\ failed' \in {failed, failed + 1}
        /\ Counted' \in {Counted, Counted + 1}

\* C33: in every state of the aggregating loop processed is the number of
\* results received so far, and added + skipped + failed <= processed <=
\* total; a result increments processed by one and at most one of added,
\* skipped and failed; when the loop has ended processed is the number of
\* scraped items. The tracker's counters move with them.
C33_Counters == []C33_State /\ [][C33_Step]_vars

\* three results taken: a global-cache hit, which moves none of the three
\* counters, an upload and a failure
C33_Witness ==
    /\ apc = "agg" /\ Len(photos) = 3 /\ processed = 3
    /\ added = 1 /\ skipped = 0 /\ failed = 1
    /\ Len(newAssetIds) = 2


\* the download request for item i was made and answered
DownloadSucceeded(i) == downloads[i] = 1 /\ Res(i).Error # "download"

\* the upload request for item i was made and answered with a usable id
UploadSucceeded(i) ==
    /\ UploadSent(i)
    /\ Up(i).status < 400 /\ Up(i).body = "id"

\* C34: every per-item result satisfies: an error implies an empty asset id
\* and no new upload; a new upload implies a non-empty asset id and no error;
\* bytes uploaded are non-zero only when the upload request succeeded, and
\* bytes downloaded are non-zero only when the download succeeded.
C34_ResultShape ==
    \A i \in DOMAIN handled :
        handled[i] # <<>> =>
            /\ Res(i).Error # "nil" => Res(i).ID = "" /\ ~Res(i).WasUploaded
            /\ Res(i).WasUploaded => Res(i).ID # "" /\ Res(i).Error = "nil"
            /\ Res(i).BytesUploaded # 0 => UploadSucceeded(i)
            /\ Res(i).BytesDownloaded # 0 => DownloadSucceeded(i)

\* two results of one sync: an upload that the store answered with status 500
\* after a download of 2 bytes, and a new upload of 1 byte
C34_Witness ==
    /\ Len(photos) = 2 /\ handled[1] # <<>> /\ handled[2] # <<>>
    /\ Res(1).Error = "upload" /\ Res(1).BytesDownloaded = 2 /\ Res(1).BytesUploaded = 0
    /\ Up(1).status = 500
    /\ Res(2).WasUploaded /\ Res(2).ID # "" /\ Res(2).BytesUploaded = 1


-----------------------------------------------------------------------------
(* Claims about the rescheduling of a batch *)

\* the configured albums of the batch, and their URLs
DueAlbums == {due[i] : i \in DOMAIN due}
DueURLs == {Albums[k].URL : k \in DueAlbums}

\* every goroutine of the batch is done
AllReturned == \A i \in DOMAIN gpc : gpc[i] = "done"

C35_State ==
    /\ rpc = "resched" => AllReturned /\ Executing = {}
    /\ (rpc = "resched" /\ loopIdx > Len(due)) =>
          \A k \in DueAlbums : nextRun[Albums[k].URL] > now

C35_Step ==
    /\ (nextRun' # nextRun /\ due # <<>>) =>
          /\ rpc = "resched" /\ AllReturned /\ now' = now
          /\ \A k \in DOMAIN Albums :
                k \notin DueAlbums => nextRun'[Albums[k].URL] = nextRun[Albums[k].URL]
          /\ \A u \in URLs \ DueURLs : nextRun'[u] = nextRun[u]
    /\ rpc = "resched" => now' = now /\ gpc' \in {gpc, <<>>}
    /\ (due' # due /\ due' # <<>>) => rpc = "collect" /\ due = <<>>
    /\ (due' # due /\ due # <<>>) =>
          /\ rpc = "resched" /\ loopIdx > Len(due) /\ due' = <<>>
          /\ \A i \in DOMAIN due : lastResched[due[i]].at = now

-----------------------------------------------------------------------------
(* immich Client.AddAssetsToAlbum: the id list is sent in chunks *)

batchSize == 2   \* ids per PUT request (100 in the code)
MaxIds    == 5   \* longest id list

\* end := i + batchSize, cut down to len(assetIds)
ChunkEnd(i) == Min(i + batchSize, Len(assetIds))

\* the number of the next PUT request of the call
NextRequest == Len(sentChunks) + 1

\* lines 392-400 and 404: one iteration whose request the store accepts
AddChunk ==
    /\ addPc = "loop" /\ addI < Len(assetIds)
    /\ NextRequest # failAt
    /\ sentChunks' = Append(sentChunks, SubSeq(assetIds, addI + 1, ChunkEnd(addI)))
    /\ addI' = addI + batchSize
    /\ UNCHANGED <<outsideCalls, retryVars, batchVars, mediaVars, assetIds, failAt, addPc,
                   addErr>>

\* the error of a request is dropped and the loop goes on
AddChunkFailsGoesOn ==
    /\ addPc = "loop" /\ addI < Len(assetIds)
    /\ NextRequest = failAt
    /\ sentChunks' = Append(sentChunks, <<>>)
    /\ addI' = addI + batchSize
    /\ UNCHANGED <<outsideCalls, retryVars, batchVars, mediaVars, assetIds, failAt, addPc,
                   addErr>>

\* lines 392-403: one iteration whose request fails: return err
AddChunkFails ==
    /\ addPc = "loop" /\ addI < Len(assetIds)
    /\ NextRequest = failAt
    /\ addErr' = "err"
    /\ addPc' = "returned"
    /\ UNCHANGED <<outsideCalls, retryVars, batchVars, mediaVars, assetIds, failAt, addI,
                   sentChunks>>

\* lines 392 and 406: the loop is over: return nil
AddReturn ==
    /\ addPc = "loop" /\ ~(addI < Len(assetIds))
    /\ addErr' = "nil"
    /\ addPc' = "returned"
    /\ UNCHANGED <<outsideCalls, retryVars, batchVars, mediaVars, assetIds, failAt, addI,
                   sentChunks>>

AddAssetsToAlbum == AddChunk \/ AddChunkFails \/ AddReturn

AssetIdNames == {"a", "b", "c"}

InitAdd ==
    /\ assetIds \in SeqsUpTo(AssetIdNames, MaxIds)
    /\ failAt \in 0..3
    /\ addPc = "loop" /\ addI = 0 /\ sentChunks = <<>> /\ addErr = "pending"
    /\ BatchIdle /\ MediaIdle
    /\ SyncIdle /\ RunIdle /\ RetryIdle /\ ParseIdle

NextAdd == AddAssetsToAlbum

\* one AddAssetsToAlbum call
SpecAdd == InitAdd /\ [][NextAdd]_vars

\* the ids of the chunks sent so far, in the order sent
RECURSIVE Flatten(_)
Flatten(cs) == IF cs = <<>> THEN <<>> ELSE Head(cs) \o Flatten(Tail(cs))

IdsSent == Flatten(sentChunks)

\* the number of requests a list of n ids needs
ChunksNeeded(n) == (n + batchSize - 1) \div batchSize

\* C36: AddAssetsToAlbum sends the id list as consecutive chunks of at most
\* the batch size, in order, every chunk but the last one full, so that every
\* id is sent in exactly one chunk; at the first chunk whose request fails it
\* returns that error, sends no further chunk and leaves the chunks already
\* sent in place.
C36_Chunks ==
    /\ \A k \in DOMAIN sentChunks :
          /\ Len(sentChunks[k]) >= 1 /\ Len(sentChunks[k]) <= batchSize
          /\ k < Len(sentChunks) => Len(sentChunks[k]) = batchSize
    /\ Len(IdsSent) <= Len(assetIds)
    /\ IdsSent = SubSeq(assetIds, 1, Len(IdsSent))
    /\ addErr = "nil" =>
          /\ IdsSent = assetIds /\ Len(sentChunks) = ChunksNeeded(Len(assetIds))
          /\ failAt = 0 \/ failAt > ChunksNeeded(Len(assetIds))
    /\ addErr = "err" =>
          /\ failAt \in 1..ChunksNeeded(Len(assetIds))
          /\ Len(sentChunks) = failAt - 1
          /\ Len(IdsSent) = (failAt - 1) * batchSize

\* five ids whose second request failed: the first chunk of two is in place
\* and the last three ids were never sent
C36_Witness ==
    /\ addPc = "returned" /\ addErr = "err"
    /\ Len(assetIds) = 5 /\ failAt = 2
    /\ sentChunks = <<SubSeq(assetIds, 1, 2)>>


-----------------------------------------------------------------------------
(* parseBatchResponse on the lines of a response body *)

MaxLines == 3   \* longest response body, in lines

ItemA == Arr(<<Str("id2"), Arr(<<Str("url2")>>)>>)
ItemB == Arr(<<Str("id3"), Arr(<<Str("url3")>>)>>)

\* the lines bodies are made of: noise; a line with the marker that is no
\* JSON; an envelope of another RPC; envelopes of this RPC whose payload
\* string is no JSON, is the JSON null, is a JSON string; two envelopes of
\* this RPC with items; the envelope of an error answer, whose payload is not
\* a string
LineCatalogue ==
    { Noise,
      Line(TRUE, Invalid, Invalid),
      Line(TRUE, Envelope("other"), Arr(<<Null, Arr(<<ItemA>>), Str("tokA")>>)),
      Line(TRUE, Envelope("snAcKc"), Invalid),
      Line(TRUE, Envelope("snAcKc"), Null),
      Line(TRUE, Envelope("snAcKc"), Str("x")),
      Line(TRUE, Envelope("snAcKc"), Arr(<<Null, Arr(<<ItemA>>), Str("tok2")>>)),
      Line(TRUE, Envelope("snAcKc"), Arr(<<Null, Arr(<<ItemB>>)>>)),
      Line(TRUE, Arr(<<Arr(<<Str("wrb.fr"), Str("snAcKc"), Null>>)>>), Invalid) }

NotParsed == PageResult(<<>>, "", "pending")

\* parseBatchResponse(string(respBody))
ParseBatch ==
    /\ batchRet = NotParsed
    /\ batchRet' = ParseBatchResponse(respBody, 1, deadline)
    /\ UNCHANGED <<outsideCalls, retryVars, addVars, mediaVars, respBody>>

InitBatch ==
    /\ respBody \in SeqsUpTo(LineCatalogue, MaxLines)
    /\ batchRet = NotParsed
    /\ AddIdle /\ MediaIdle
    /\ ScrapeIdle /\ ScanIdle
    /\ itemArr = <<>> /\ deadline = 1700000 /\ takenAt = 0
    /\ SyncIdle /\ RunIdle /\ RetryIdle

NextBatch == ParseBatch

\* one parseBatchResponse call
SpecBatch == InitBatch /\ [][NextBatch]_vars

\* the line carries the marker, decodes as a JSON array whose first element
\* is an envelope of the request, with a payload string
FromRequest(line) ==
    /\ line.wrb /\ line.envelope.t = "arr" /\ Len(line.envelope.a) > 0
    /\ line.envelope.a[1].t = "arr" /\ Len(line.envelope.a[1].a) >= 3
    /\ line.envelope.a[1].a[2] = Str("snAcKc")
    /\ line.envelope.a[1].a[3].t = "str" /\ line.envelope.a[1].a[3].s # ""

\* what a call returns when the lines at the positions Q are the ones that
\* qualify
FirstOf(Q) ==
    IF Q = {}
    THEN batchRet.err \notin {"nil", "pending"} /\ batchRet.photos = <<>> /\ batchRet.token = ""
    ELSE LET first == CHOOSE i \in Q : \A j \in Q : i <= j
         IN  batchRet = FromPayload(respBody[first].payload, deadline)

\* C37 as stated: parseBatchResponse returns the items and the next token of
\* the first line of the body that contains the envelope marker, decodes as
\* JSON, carries the RPC id that was sent and whose string payload decodes as
\* a JSON array; every other line is skipped, and when no line of the body
\* qualifies the page fetch fails with an error.
C37_AsStated ==
    batchRet # NotParsed =>
        FirstOf({i \in DOMAIN respBody :
                    FromRequest(respBody[i]) /\ respBody[i].payload.t = "arr"})

\* what the code does: a payload string that is the JSON null qualifies as
\* well, and gives a page without items and without token
C37_FirstEnvelope ==
    batchRet # NotParsed =>
        FirstOf({i \in DOMAIN respBody :
                    FromRequest(respBody[i]) /\ respBody[i].payload.t \in {"arr", "null"}})

\* a body whose only envelope of the request has the payload "null", before
\* noise: the call returns a page without items, without token and without
\* error
C37_NullPage ==
    /\ respBody = <<Line(TRUE, Envelope("snAcKc"), Null), Noise>>
    /\ batchRet = PageResult(<<>>, "", "nil")


-----------------------------------------------------------------------------
(* googlephotos.DownloadMedia: the content-type probe and the download *)

HeadAnswer(status, ct) == [StatusCode |-> status, ct |-> ct]

NilHead == HeadAnswer(0, "")

\* what the media server may answer to a HEAD request
HeadAnswers ==
    { HeadAnswer(200, "image/jpeg"), HeadAnswer(200, "video/mp4"),
      HeadAnswer(429, "text/html"), HeadAnswer(429, "video/mp4"),
      HeadAnswer(404, "text/html") }

Probed(r, e, n) == [resp |-> r, err |-> e, sent |-> n]

\* the probe is repeated while the answer is 429
ClientHeadWithRetry(o, urlOk) ==
    IF ~urlOk THEN Probed(NilHead, "request", 0)
    ELSE IF o.headErr THEN Probed(NilHead, "transport", 1)
    ELSE IF o.heads[1].StatusCode = 429 THEN Probed(o.heads[2], "nil", 2)
    ELSE Probed(o.heads[1], "nil", 1)

\* Client.Head: http.NewRequest and one c.client.Do(req); the response, the
\* error and the number of requests dispatched
ClientHead(o, urlOk) ==
    IF ~urlOk THEN Probed(NilHead, "request", 0)
    ELSE IF o.headErr THEN Probed(NilHead, "transport", 1)
    ELSE Probed(o.heads[1], "nil", 1)

Media(size, ext, video, err) == [size |-> size, ext |-> ext, isVideo |-> video, err |-> err]

NoMedia == Media(0, <<>>, FALSE, "pending")

\* line 951: probeResp, err := client.Head(baseUrl + "=d")
Probe ==
    /\ mpc = "probe"
    /\ probeResp' = ClientHead(origin, req.urlOk)
    /\ mpc' = "classify"
    /\ UNCHANGED <<outsideCalls, retryVars, addVars, batchVars, origin, isVideo, mediaRet>>

\* lines 952-954: the probe failed
ProbeFailed ==
    /\ mpc = "classify" /\ probeResp.err # "nil"
    /\ mediaRet' = Media(0, <<>>, FALSE, probeResp.err)
    /\ mpc' = "returned"
    /\ UNCHANGED <<outsideCalls, retryVars, addVars, batchVars, origin, probeResp, isVideo>>

\* lines 957-962 and 979: isVideo from the Content-Type of the probe, and the
\* call of client.Get for "=dv" or "=d"
Classify ==
    /\ mpc = "classify" /\ probeResp.err = "nil"
    /\ isVideo' = IsVideoType(probeResp.resp.ct)
    /\ dpc' = "jitter"
    /\ mpc' = "get"
    /\ UNCHANGED <<outsideCalls, addVars, batchVars, origin, probeResp, mediaRet,
                   req, server, attempt, resp, ret, dispatched, slept, warned>>

\* lines 963-976 and 980-999: what is made of the answer of client.Get
Downloaded ==
    /\ mpc = "get" /\ dpc = "returned"
    /\ mediaRet' = IF ret.err # "nil" THEN Media(0, <<>>, FALSE, ret.err)
                   ELSE IF ret.resp.StatusCode # 200 THEN Media(0, <<>>, FALSE, "status")
                   ELSE Media(origin.size, ExtensionFromContentType(origin.ct), isVideo, "nil")
    /\ mpc' = "returned"
    /\ UNCHANGED <<outsideCalls, retryVars, addVars, batchVars, origin, probeResp, isVideo>>

\* the steps of one call; the request of the Get is built from the URL the
\* probe was built from, so that http.NewRequest cannot fail in it
DownloadMedia ==
    \/ Probe \/ ProbeFailed \/ Classify \/ Downloaded
    \/ Jitter \/ LoopExit \/ DoFails \/ DoAnswered \/ DoRateLimited \/ Backoff

InitMedia ==
    /\ origin \in [heads : [1..2 -> HeadAnswers], headErr : BOOLEAN,
                   ct : {"image/jpeg", "video/mp4"}, size : {2}]
    /\ mpc = "probe" /\ probeResp = Probed(NilHead, "pending", 0)
    /\ isVideo = FALSE /\ mediaRet = NoMedia
    /\ req \in [Method : {"GET"}, urlOk : BOOLEAN]
    /\ server \in [limited : {<<>>, <<"">>, [k \in 1..maxRetries |-> ""]},
                   final : {"200", "503", "neterr"}]
    /\ dpc = "none" /\ attempt = 0 /\ resp = NilResp
    /\ ret = Returned(NilResp, "pending")
    /\ dispatched = 0 /\ slept = <<>> /\ warned = 0
    /\ AddIdle /\ BatchIdle
    /\ SyncIdle /\ RunIdle /\ ParseIdle

NextMedia == DownloadMedia

\* one DownloadMedia call
SpecMedia == InitMedia /\ [][NextMedia]_vars

\* Head has returned
HeadReturned == probeResp.err # "pending"

\* C38: Head performs exactly one dispatch, with no jitter sleep and no
\* rate-limit retry: a 429 answer to the content-type probe is returned to the
\* caller unchanged, and DownloadMedia then classifies the item from that
\* response's content type without looking at its status.
C38_Probe ==
    /\ mpc \in {"probe", "classify"} => slept = <<>> /\ warned = 0 /\ dispatched = 0
    /\ HeadReturned =>
          /\ probeResp.sent = (IF req.urlOk THEN 1 ELSE 0)
          /\ probeResp.err = "nil" => probeResp.resp = origin.heads[1]
          /\ (req.urlOk /\ ~origin.headErr) => probeResp.err = "nil"
    /\ (mpc \in {"get", "returned"} /\ probeResp.err = "nil") =>
          isVideo = (origin.heads[1].ct \in {"video/mp4"})
    /\ (mpc = "returned" /\ mediaRet.err = "nil") => mediaRet.isVideo = isVideo

\* the probe of a video was answered 429 with an HTML body and a second probe
\* would have been answered 200: the item was taken for an image and
\* downloaded as one, after the one jitter sleep of the Get
C38_Witness ==
    /\ mpc = "returned" /\ mediaRet.err = "nil"
    /\ origin.heads = <<HeadAnswer(429, "text/html"), HeadAnswer(200, "video/mp4")>>
    /\ origin.ct = "video/mp4"
    /\ probeResp = Probed(HeadAnswer(429, "text/html"), "nil", 1)
    /\ ~isVideo /\ ~mediaRet.isVideo
    /\ Len(slept) = 1 /\ dispatched = 1

====
